---- MODULE Spec2Model ----
(***************************************************************************)
(* A model of the librarian tools of engram:                               *)
(*   fetch_wi_batch.py      work items -> neurona documents                *)
(*   validate_compliance.py neurona documents -> tiered verdicts           *)
(*                                                                         *)
(* Python values are records tagged by their type in field t:              *)
(*   None  [t |-> "null"]          str   [t |-> "str",  s |-> characters]  *)
(*   int   [t |-> "int", n |-> i]  list  [t |-> "list", l |-> sequence]    *)
(*   dict  [t |-> "dict", d |-> function from key strings to values]       *)
(* A str is the sequence of its characters, so that lower(), replace(),    *)
(* split(), startswith() and "in" are computed on characters. Dictionary   *)
(* keys, tags and issue messages are written as TLA+ strings; Join turns a *)
(* character sequence into the TLA+ string of the same text.               *)
(***************************************************************************)
EXTENDS Integers, Sequences, FiniteSets, TLC

VARIABLES
    raw,        \* normalizer: the identifier given to sanitize_id
    ident,      \* normalizer: the value after napplied applications
    prev,       \* normalizer: the value before the last application
    napplied,   \* normalizer: number of applications of sanitize_id so far
    key,        \* vocabulary: the raw value handed to a map
    lookup,     \* vocabulary: the last map call and what it gave
    args,       \* batch: the identifiers given on the command line
    items,      \* batch: the list process_work_items works through
    include_links, \* batch: relationship extraction enabled
    pos,        \* batch: index of the next item of the loop (from 1)
    results,    \* batch: the results dict: success, failed, total, relationships
    log,        \* batch: the identifiers printed as "Fetching: ...", in order
    neuronas,   \* batch: the files of neuronas/: name -> content and writer
    assets,     \* batch: the raw JSON files of assets/, by identifier
    manifest,   \* batch: the manifest file once written, else None
    exit_code,  \* batch: what main returned, else None
    pc,         \* batch: "start", "loop"/"main_loop", "main_return", "done"
    doc_text,   \* parser: the text of a document
    split,      \* parser: what the split of doc_text gave, else None
    source,     \* round trip: the work item: identifier and payload
    converted,  \* round trip: what convert_to_neurona gave, else None
    loaded,     \* round trip: what load_neurona gave for the content, else None
    dir_exists, \* validator: neuronas/ exists
    unread,     \* validator: number of files of neuronas/ not validated yet
    verdicts,   \* validator: main's results, in the order of the files
    document,   \* validator: the content of the file validated last
    report,     \* validator: what validate_neurona did with document
    vexit,      \* validator: the exit code of the script, else None
    vpc,        \* validator: "start", "loop", "done", "crashed"
    link_data,  \* links: the payload given to extract_relationships
    edges       \* links: what extract_relationships returned, else None

normVars == <<raw, ident, prev, napplied>>
vocabVars == <<key, lookup>>
batchVars == <<args, items, include_links, pos, results, log, neuronas, assets,
               manifest, exit_code, pc>>

parseVars == <<doc_text, split>>

tripVars == <<source, converted, loaded>>

validVars == <<dir_exists, unread, verdicts, document, report, vexit, vpc>>

linkVars == <<link_data, edges>>

vars == <<normVars, vocabVars, batchVars, parseVars, tripVars, validVars, linkVars>>

\* What the actions of one tool leave alone: the state of the other tools.
exceptNorm == <<vocabVars, batchVars, parseVars, tripVars, validVars, linkVars>>
exceptVocab == <<normVars, batchVars, parseVars, tripVars, validVars, linkVars>>
exceptBatch == <<normVars, vocabVars, parseVars, tripVars, validVars, linkVars>>
exceptParse == <<normVars, vocabVars, batchVars, tripVars, validVars, linkVars>>
exceptTrip == <<normVars, vocabVars, batchVars, parseVars, validVars, linkVars>>
exceptValid == <<normVars, vocabVars, batchVars, parseVars, tripVars, linkVars>>
exceptLink == <<normVars, vocabVars, batchVars, parseVars, tripVars, validVars>>

-----------------------------------------------------------------------------
(* Bounds of the model *)

MaxIdLen == 3
MaxApply == 2
MaxKeyLen == 3
MaxItems == 2
MaxDocLen == 9
MaxTitleLen == 3
MaxFiles == 2
MaxLinks == 2

-----------------------------------------------------------------------------
(* Python values and str operations *)

PyNone == [t |-> "null"]
PyStr(chars) == [t |-> "str", s |-> chars]
PyInt(i) == [t |-> "int", n |-> i]
PyList(elems) == [t |-> "list", l |-> elems]
PyDict(f) == [t |-> "dict", d |-> f]

\* The outcome of a call: a returned value or a raised exception.
Return(v) == [raised |-> FALSE, value |-> v]
Raise(e) == [raised |-> TRUE, exc |-> e]

RECURSIVE Join(_)
Join(chars) == IF chars = <<>> THEN "" ELSE Head(chars) \o Join(Tail(chars))

\* All character sequences over alphabet of length at most n.
StringsUpTo(alphabet, n) == UNION {[1..k -> alphabet] : k \in 0..n}

UpperLetters ==
    <<"A","B","C","D","E","F","G","H","I","J","K","L","M",
      "N","O","P","Q","R","S","T","U","V","W","X","Y","Z">>
LowerLetters ==
    <<"a","b","c","d","e","f","g","h","i","j","k","l","m",
      "n","o","p","q","r","s","t","u","v","w","x","y","z">>

\* str.lower() on one character.
lower_char(c) ==
    IF \E i \in DOMAIN UpperLetters : UpperLetters[i] = c
    THEN LowerLetters[CHOOSE i \in DOMAIN UpperLetters : UpperLetters[i] = c]
    ELSE c

\* str.lower()
str_lower(chars) == [i \in DOMAIN chars |-> lower_char(chars[i])]

\* str.replace(old, new, count) for one-character old and new; a negative
\* count replaces every occurrence (Python's default is -1).
RECURSIVE str_replace(_, _, _, _)
str_replace(chars, old, new, count) ==
    IF chars = <<>> \/ count = 0 THEN chars
    ELSE IF Head(chars) = old
         THEN <<new>> \o str_replace(Tail(chars), old, new, count - 1)
         ELSE <<Head(chars)>> \o str_replace(Tail(chars), old, new, count)

\* dict.get(key, default)
dict_get(d, k, default) == IF k \in DOMAIN d THEN d[k] ELSE default

-----------------------------------------------------------------------------
(* fetch_wi_batch.py: identifier normalizer *)

\* A normalizer that replaces the first hyphen only.
sanitize_id_first_only(work_item_id) ==
    str_replace(str_lower(work_item_id), "-", ".", 1)

sanitize_id(work_item_id) ==
    str_replace(str_lower(work_item_id), "-", ".", -1)

-----------------------------------------------------------------------------
(* fetch_wi_batch.py: vocabulary maps *)

type_mapping ==
    "systemRequirement" :> "requirement" @@
    "requirement" :> "requirement" @@
    "task" :> "task" @@
    "defect" :> "issue" @@
    "bug" :> "issue" @@
    "testCase" :> "test_case" @@
    "feature" :> "feature" @@
    "story" :> "feature" @@
    "epic" :> "feature"

status_tags ==
    "approved" :> <<"approved", "active">> @@
    "draft" :> <<"draft", "wip">> @@
    "implemented" :> <<"implemented", "complete">> @@
    "verified" :> <<"verified", "tested">> @@
    "closed" :> <<"closed", "archived">> @@
    "open" :> <<"open", "active">> @@
    "in_progress" :> <<"wip", "active">>

link_mapping ==
    "parent" :> "parent" @@
    "child" :> "child" @@
    "relates_to" :> "relates_to" @@
    "blocks" :> "blocks" @@
    "depends_on" :> "blocked_by" @@
    "verifies" :> "validates" @@
    "verified_by" :> "validated_by" @@
    "implements" :> "implements" @@
    "implemented_by" :> "implemented_by" @@
    "tests" :> "tests" @@
    "tested_by" :> "tested_by" @@
    "related" :> "related"

\* The characters of every key of the three vocabularies.
Spelling ==
    "systemRequirement" :> <<"s","y","s","t","e","m","R","e","q","u","i","r","e","m","e","n","t">> @@
    "requirement" :> <<"r","e","q","u","i","r","e","m","e","n","t">> @@
    "task" :> <<"t","a","s","k">> @@
    "defect" :> <<"d","e","f","e","c","t">> @@
    "bug" :> <<"b","u","g">> @@
    "testCase" :> <<"t","e","s","t","C","a","s","e">> @@
    "feature" :> <<"f","e","a","t","u","r","e">> @@
    "story" :> <<"s","t","o","r","y">> @@
    "epic" :> <<"e","p","i","c">> @@
    "approved" :> <<"a","p","p","r","o","v","e","d">> @@
    "draft" :> <<"d","r","a","f","t">> @@
    "implemented" :> <<"i","m","p","l","e","m","e","n","t","e","d">> @@
    "verified" :> <<"v","e","r","i","f","i","e","d">> @@
    "closed" :> <<"c","l","o","s","e","d">> @@
    "open" :> <<"o","p","e","n">> @@
    "in_progress" :> <<"i","n","_","p","r","o","g","r","e","s","s">> @@
    "parent" :> <<"p","a","r","e","n","t">> @@
    "child" :> <<"c","h","i","l","d">> @@
    "relates_to" :> <<"r","e","l","a","t","e","s","_","t","o">> @@
    "blocks" :> <<"b","l","o","c","k","s">> @@
    "depends_on" :> <<"d","e","p","e","n","d","s","_","o","n">> @@
    "verifies" :> <<"v","e","r","i","f","i","e","s">> @@
    "verified_by" :> <<"v","e","r","i","f","i","e","d","_","b","y">> @@
    "implements" :> <<"i","m","p","l","e","m","e","n","t","s">> @@
    "implemented_by" :> <<"i","m","p","l","e","m","e","n","t","e","d","_","b","y">> @@
    "tests" :> <<"t","e","s","t","s">> @@
    "tested_by" :> <<"t","e","s","t","e","d","_","b","y">> @@
    "related" :> <<"r","e","l","a","t","e","d">>

\* dict.get raises TypeError on an unhashable key (a list or a dict).
Unhashable(v) == v.t \in {"list", "dict"}

\* The text of a key: a str's text; None is a key no vocabulary holds.
KeyText(v) == IF v.t = "str" THEN Join(v.s) ELSE "<None>"

map_wi_type_to_neurona_type(wi_type) ==
    IF Unhashable(wi_type) THEN Raise("TypeError")
    ELSE Return(dict_get(type_mapping, KeyText(wi_type), "concept"))

\* A status map without a default: dict[key] raises KeyError.
map_status_no_default(status) ==
    IF status.t # "str" THEN Raise("AttributeError")
    ELSE IF Join(str_lower(status.s)) \in DOMAIN status_tags
         THEN Return(status_tags[Join(str_lower(status.s))])
         ELSE Raise("KeyError")

map_status_to_tags(status) ==
    IF status.t # "str" THEN Raise("AttributeError")   \* status.lower()
    ELSE Return(dict_get(status_tags, Join(str_lower(status.s)), <<"unknown">>))

\* A link map that lets an unknown role through as it is written.
map_link_passthrough(link_role) ==
    IF link_role.t # "str" THEN Raise("AttributeError")
    ELSE Return(dict_get(link_mapping, Join(str_lower(link_role.s)), Join(link_role.s)))

map_polarion_link_to_connection_type(link_role) ==
    IF link_role.t # "str" THEN Raise("AttributeError")   \* link_role.lower()
    ELSE Return(dict_get(link_mapping, Join(str_lower(link_role.s)), "relates_to"))

-----------------------------------------------------------------------------
(* More str, list and dict operations *)

\* "needle in hay" for two strs.
str_contains(hay, needle) ==
    \E i \in 0..(Len(hay) - Len(needle)) :
        SubSeq(hay, i + 1, i + Len(needle)) = needle

\* str.startswith(prefix)
str_startswith(chars, prefix) ==
    Len(chars) >= Len(prefix) /\ SubSeq(chars, 1, Len(prefix)) = prefix

\* The position of the first occurrence of sep in chars at or after position
\* from, or 0 when there is none.
str_find(chars, sep, from) ==
    LET hits == {i \in from..(Len(chars) - Len(sep) + 1) :
                    SubSeq(chars, i, i + Len(sep) - 1) = sep}
    IN IF hits = {} THEN 0 ELSE CHOOSE i \in hits : \A j \in hits : i <= j

\* str.split(sep, maxsplit): at most maxsplit cuts, leftmost first; a
\* negative maxsplit cuts at every occurrence.
RECURSIVE str_split(_, _, _)
str_split(chars, sep, maxsplit) ==
    LET at == str_find(chars, sep, 1)
    IN IF maxsplit = 0 \/ at = 0 THEN <<chars>>
       ELSE <<SubSeq(chars, 1, at - 1)>>
            \o str_split(SubSeq(chars, at + Len(sep), Len(chars)), sep, maxsplit - 1)

Whitespace == {" ", "\n", "\t"}

\* str.strip()
RECURSIVE str_strip(_)
str_strip(chars) ==
    IF chars = <<>> THEN chars
    ELSE IF Head(chars) \in Whitespace THEN str_strip(Tail(chars))
    ELSE IF chars[Len(chars)] \in Whitespace
         THEN str_strip(SubSeq(chars, 1, Len(chars) - 1))
         ELSE chars

\* Python truthiness: "if v" is false for None, 0, 0.0, False, "", [] and {}.
Truthy(v) ==
    CASE v.t = "null" -> FALSE
      [] v.t = "int" -> v.n # 0
      [] v.t = "str" -> v.s # <<>>
      [] v.t = "list" -> v.l # <<>>
      [] v.t = "dict" -> DOMAIN v.d # {}
      [] v.t = "bool" -> v.b
      [] v.t = "float" -> \E i \in DOMAIN v.text : v.text[i] \notin {"0", "."}

\* == on two Python values of the model: strs are equal when their texts are.
PyEq(a, b) ==
    /\ a.t = b.t
    /\ IF a.t = "str" THEN Join(a.s) = Join(b.s) ELSE a = b

EmptyDict == PyDict(<<>>)

\* f"{v}": the text an f-string puts for a value.
py_format(v) ==
    CASE v.t = "str" -> v.s
      [] v.t = "null" -> <<"None">>
      [] v.t = "int" -> <<ToString(v.n)>>
      [] v.t = "list" -> <<"[", "...", "]">>
      [] v.t = "dict" -> <<"{", "...", "}">>

\* str.join: the texts of parts with sep between them.
RECURSIVE str_join(_, _)
str_join(sep, parts) ==
    IF parts = <<>> THEN <<>>
    ELSE IF Len(parts) = 1 THEN parts[1]
    ELSE parts[1] \o sep \o str_join(sep, Tail(parts))

\* list(dict.fromkeys(items)): the first occurrence of every item, in order.
\* A list kept as it is, duplicates included.
dedupe_keeps_all(elems) == elems

RECURSIVE dedupe(_)
dedupe(elems) ==
    IF elems = <<>> THEN <<>>
    ELSE LET front == dedupe(SubSeq(elems, 1, Len(elems) - 1))
             last == elems[Len(elems)]
         IN IF \E i \in DOMAIN front : PyEq(front[i], last)
            THEN front
            ELSE Append(front, last)

\* reversed(seq)
reversed(seq) == [i \in DOMAIN seq |-> seq[Len(seq) + 1 - i]]

-----------------------------------------------------------------------------
(* fetch_wi_batch.py: relationship extraction *)

DefaultWeight == 80

IdPrefixes == {<<"w", "i", ".">>, <<"W", "I", "-">>, <<"W", "I", ".">>}

\* The loop over the segments of a link id, last segment first: the first
\* segment with a work item prefix, normalized; the raw link id when no
\* segment has one.
RECURSIVE scan_parts(_, _)
scan_parts(parts, link_id) ==
    IF parts = <<>> THEN link_id
    ELSE IF \E p \in IdPrefixes : str_startswith(Head(parts), p)
         THEN sanitize_id(Head(parts))
         ELSE scan_parts(Tail(parts), link_id)

clean_link_id(link_id) ==
    IF str_contains(link_id, <<"/">>)
    THEN scan_parts(reversed(str_split(link_id, <<"/">>, -1)), link_id)
    ELSE sanitize_id(link_id)

\* One pass of the loop body on a link descriptor: the edges to append
\* (none or one), or a raised exception.
extract_link(link) ==
    IF link.t # "dict" THEN Raise("AttributeError")            \* link.get
    ELSE LET link_id == dict_get(link.d, "id", PyNone)
             link_role == dict_get(link.d, "role", PyStr(Spelling["relates_to"]))
         IN IF ~Truthy(link_id) THEN Return(<<>>)
            ELSE IF link_id.t = "int" THEN Raise("TypeError")   \* "/" in link_id
            ELSE IF link_id.t # "str" THEN Raise("AttributeError")
            ELSE LET mapped == map_polarion_link_to_connection_type(link_role)
                 IN IF mapped.raised THEN mapped
                    ELSE Return(<<[target_id |-> clean_link_id(link_id.s),
                                   connection_type |-> mapped.value,
                                   weight |-> DefaultWeight]>>)

\* The for loop under the try: an exception ends the loop and the except
\* clause keeps what was appended before it.
RECURSIVE extract_loop(_, _)
extract_loop(links, relationships) ==
    IF links = <<>> THEN relationships
    ELSE LET one == extract_link(Head(links))
         IN IF one.raised THEN relationships
            ELSE extract_loop(Tail(links), relationships \o one.value)

\* What "for link in linked_items" iterates over: the items of a list, the
\* keys of a dict, the characters of a str.
iterate(v) ==
    CASE v.t = "list" -> v.l
      [] v.t = "str" -> [i \in DOMAIN v.s |-> PyStr(<<v.s[i]>>)]
      [] v.t = "dict" -> IF DOMAIN v.d = {} THEN <<>> ELSE <<PyStr(<<"key">>)>>
      [] OTHER -> <<>>

extract_relationships(data) ==
    IF data.t # "dict" THEN <<>>
    ELSE LET d1 == dict_get(data.d, "data", EmptyDict)
         IN IF d1.t # "dict" THEN <<>>
            ELSE LET rels == dict_get(d1.d, "relationships", EmptyDict)
                 IN IF rels.t # "dict" THEN <<>>
                    ELSE LET lwi == dict_get(rels.d, "linkedWorkItems", EmptyDict)
                         IN IF lwi.t # "dict" THEN <<>>
                            ELSE extract_loop(
                                    iterate(dict_get(lwi.d, "data", PyList(<<>>))),
                                    <<>>)

\* connections: ["type:target:weight", ...]
format_connections_yaml(relationships) ==
    IF relationships = <<>> THEN <<>>
    ELSE <<"connections", ":", " ", "[">>
         \o str_join(<<",", " ">>,
               [i \in DOMAIN relationships |->
                   <<"\"", relationships[i].connection_type, ":">>
                   \o relationships[i].target_id
                   \o <<":", ToString(relationships[i].weight), "\"">>])
         \o <<"]">>

-----------------------------------------------------------------------------
(* fetch_wi_batch.py: conversion of a work item to a neurona document      *)
(*                                                                         *)
(* The texts the program builds are sequences of pieces: every "-", ".",   *)
(* "/", ":", quote, bracket, comma, blank and line break is a piece of its *)
(* own, and so is every character of text that comes from a payload; the   *)
(* words of the program's own templates are one piece each.                *)

PROJECT_ID == <<"10033794_Ford_DAT_Core_Software">>

NL == <<"\n">>

\* re.sub(r"<[^>]+>", "", text): every "<", one or more characters other
\* than ">", ">" is removed, leftmost first.
RECURSIVE strip_tags(_)
strip_tags(chars) ==
    LET starts == {i \in 1..(Len(chars) - 2) :
                      /\ chars[i] = "<"
                      /\ chars[i + 1] # ">"
                      /\ \E j \in (i + 2)..Len(chars) : chars[j] = ">"}
    IN IF starts = {} THEN chars
       ELSE LET i == CHOOSE a \in starts : \A b \in starts : a <= b
                ends == {j \in (i + 2)..Len(chars) : chars[j] = ">"}
                j == CHOOSE a \in ends : \A b \in ends : a <= b
            IN SubSeq(chars, 1, i - 1) \o strip_tags(SubSeq(chars, j + 1, Len(chars)))

Entities ==
    {[name |-> <<"&", "l", "t", ";">>, char |-> "<"],
     [name |-> <<"&", "g", "t", ";">>, char |-> ">"],
     [name |-> <<"&", "a", "m", "p", ";">>, char |-> "&"]}

\* html.unescape, in one pass from the left, for the entities &lt; &gt; &amp;
RECURSIVE html_unescape(_)
html_unescape(chars) ==
    IF chars = <<>> THEN chars
    ELSE IF \E e \in Entities : str_startswith(chars, e.name)
         THEN LET e == CHOOSE e \in Entities : str_startswith(chars, e.name)
              IN <<e.char>> \o html_unescape(SubSeq(chars, Len(e.name) + 1, Len(chars)))
         ELSE <<Head(chars)>> \o html_unescape(Tail(chars))

clean_html(html_text) ==
    IF ~Truthy(html_text) THEN Return(<<>>)
    ELSE IF html_text.t # "str" THEN Raise("TypeError")        \* re.sub
    ELSE Return(str_strip(html_unescape(strip_tags(html_text.s))))

\* The keyword rules of the tag inference: the tag, and the words of which
\* one must occur in the lower-cased title and description.
KeywordRules ==
    <<[tag |-> <<"sensor">>, words |-> {<<"s","e","n","s","o","r">>}],
      [tag |-> <<"temperature">>, words |-> {<<"t","e","m","p","e","r","a","t","u","r","e">>}],
      [tag |-> <<"configuration">>, words |-> {<<"c","o","n","f","i","g","u","r","a","t","i","o","n">>, <<"c","o","n","f","i","g">>}],
      [tag |-> <<"fault", "-", "detection">>, words |-> {<<"f","a","u","l","t">>, <<"e","r","r","o","r">>}],
      [tag |-> <<"microcontroller">>, words |-> {<<"m","i","c","r","o">>, <<"c","o","n","t","r","o","l","l","e","r">>}]>>

\* Rules that exclude each other: only the first rule that matches gives its
\* tag.
keyword_tags_first_match(text, rules) ==
    LET hits == {i \in DOMAIN rules : \E w \in rules[i].words : str_contains(text, w)}
    IN IF hits = {} THEN <<>>
       ELSE <<PyStr(rules[CHOOSE i \in hits : \A j \in hits : i <= j].tag)>>

RECURSIVE keyword_tags(_, _)
keyword_tags(text, rules) ==
    IF rules = <<>> THEN <<>>
    ELSE (IF \E w \in Head(rules).words : str_contains(text, w)
          THEN <<PyStr(Head(rules).tag)>>
          ELSE <<>>) \o keyword_tags(text, Tail(rules))

\* json.dumps of one tag and of the list of tags (tags hold no quote,
\* backslash or non-ASCII character, which json.dumps would escape).
json_dumps_item(v) ==
    CASE v.t = "str" -> <<"\"">> \o v.s \o <<"\"">>
      [] v.t = "null" -> <<"null">>
      [] v.t = "int" -> <<ToString(v.n)>>

json_dumps(elems) ==
    <<"[">> \o str_join(<<",", " ">>, [i \in DOMAIN elems |-> json_dumps_item(elems[i])])
    \o <<"]">>

\* obj.get("id") if obj is a dict, else None.
person_id(obj) == IF obj.t = "dict" THEN dict_get(obj.d, "id", PyNone) ELSE PyNone

PortalUrl == <<"https://polarionprod1.aptiv.com/polarion/redirect/project/">>

\* The build of the document once every field is read: lines 311-388.
\* f holds the fields that convert_to_neurona has extracted.
build_neurona(f) ==
    LET wi_id == f.wi_id
        wi_type == f.wi_type
        title == f.title
        description == f.description
        status == f.status
        updated == f.updated
        priority == f.priority
        assignee == f.assignee
        author == f.author
        neurona_id == f.neurona_id
        neurona_type == f.neurona_type
        status_tag_list == f.status_tag_list
        relationships == f.relationships
    IN
    LET text == str_lower(title.s \o <<" ">> \o description)
        tags == dedupe(<<PyStr(<<"polarion">>), wi_type>>
                       \o [i \in DOMAIN status_tag_list |-> PyStr(<<status_tag_list[i]>>)]
                       \o keyword_tags(text, KeywordRules))
        context_lines ==
            <<<<"context", ":">>,
              <<" ", " ", "source", ":", " ", "\"", "polarion", "\"">>,
              <<" ", " ", "original_id", ":", " ", "\"">> \o wi_id.s \o <<"\"">>,
              <<" ", " ", "status", ":", " ", "\"">> \o status.s \o <<"\"">>,
              <<" ", " ", "project", ":", " ", "\"">> \o PROJECT_ID \o <<"\"">> >>
            \o (IF Truthy(priority)
                THEN << <<" ", " ", "priority", ":", " ">> \o py_format(priority) >>
                ELSE <<>>)
            \o (IF Truthy(assignee)
                THEN << <<" ", " ", "assignee", ":", " ", "\"">> \o py_format(assignee) \o <<"\"">> >>
                ELSE <<>>)
            \o (IF Truthy(author)
                THEN << <<" ", " ", "author", ":", " ", "\"">> \o py_format(author) \o <<"\"">> >>
                ELSE <<>>)
        frontmatter ==
            <<"-", "-", "-", "\n">>
            \o <<"id", ":", " ">> \o neurona_id \o NL
            \o <<"title", ":", " ">> \o title.s \o NL
            \o <<"type", ":", " ", neurona_type>> \o NL
            \o <<"tags", ":", " ">> \o json_dumps(tags) \o NL
            \o <<"updated", ":", " ", "\"">> \o py_format(updated) \o <<"\"">> \o NL
            \o str_join(NL, context_lines) \o NL
            \o (IF relationships # <<>>
                THEN format_connections_yaml(relationships) \o NL
                ELSE <<>>)
            \o <<"-", "-", "-", "\n", "\n">>
        metadata ==
            <<"##", " ", "Metadata", "\n", "\n">>
            \o <<"-", " ", "**Original ID**:", " ">> \o wi_id.s \o NL
            \o <<"-", " ", "**Type**:", " ">> \o py_format(wi_type) \o NL
            \o <<"-", " ", "**Status**:", " ">> \o status.s \o NL
            \o (IF Truthy(priority)
                THEN <<"-", " ", "**Priority**:", " ">> \o py_format(priority) \o NL
                ELSE <<>>)
            \o (IF Truthy(assignee)
                THEN <<"-", " ", "**Assignee**:", " ">> \o py_format(assignee) \o NL
                ELSE <<>>)
            \o (IF Truthy(author)
                THEN <<"-", " ", "**Author**:", " ">> \o py_format(author) \o NL
                ELSE <<>>)
            \o <<"-", " ", "**Project**:", " ">> \o PROJECT_ID \o NL
            \o <<"-", " ", "**Portal**:", " ", "[">> \o wi_id.s \o <<"](">>
            \o PortalUrl \o PROJECT_ID \o <<"/workitem?id=">> \o wi_id.s \o <<")", "\n">>
        content ==
            frontmatter
            \o (IF description # <<>> THEN description \o <<"\n", "\n">> ELSE <<>>)
            \o metadata
    IN [content |-> content, neurona_id |-> neurona_id,
        relationships |-> relationships,
        record |-> [id |-> neurona_id, title |-> title.s, type |-> neurona_type,
                    tags |-> tags, updated |-> py_format(updated),
                    status |-> status.s, priority |-> priority,
                    assignee |-> assignee, author |-> author,
                    connections |-> relationships, body |-> description]]

\* convert_to_neurona(work_item_id, data, with_links); now is what
\* datetime.now().isoformat() gives. The result is Return of the content,
\* the neurona id and the relationships (with the canonical record the
\* content was built from), or the exception raised.
convert_to_neurona(work_item_id, data, with_links, now) ==
    IF data.t # "dict" THEN Raise("AttributeError") ELSE
    LET d1 == dict_get(data.d, "data", EmptyDict) IN
    IF d1.t # "dict" THEN Raise("AttributeError") ELSE
    LET attrs == dict_get(d1.d, "attributes", EmptyDict) IN
    IF attrs.t # "dict" THEN Raise("AttributeError") ELSE
    LET wi_id == dict_get(attrs.d, "id", PyStr(work_item_id))
        wi_type == dict_get(attrs.d, "type", PyStr(<<"concept">>))
        title == dict_get(attrs.d, "title", PyStr(<<"U","n","t","i","t","l","e","d">>))
        description_obj == dict_get(attrs.d, "description", EmptyDict)
        status == dict_get(attrs.d, "status", PyStr(<<"unknown">>))
        updated == dict_get(attrs.d, "updated", PyStr(now))
        priority == dict_get(attrs.d, "priority", PyNone)
        assignee == person_id(dict_get(attrs.d, "assignee", EmptyDict))
        author == person_id(dict_get(attrs.d, "author", EmptyDict))
    IN
    IF description_obj.t # "dict" THEN Raise("AttributeError") ELSE
    LET description == clean_html(dict_get(description_obj.d, "value", PyStr(<<>>))) IN
    IF description.raised THEN description ELSE
    IF wi_id.t # "str" THEN Raise("AttributeError") ELSE       \* wi_id.lower()
    LET neurona_type == map_wi_type_to_neurona_type(wi_type) IN
    IF neurona_type.raised THEN neurona_type ELSE
    LET status_tag_list == map_status_to_tags(status) IN
    IF status_tag_list.raised THEN status_tag_list ELSE
    IF title.t # "str" THEN Raise("TypeError") ELSE            \* title + " "
    Return(build_neurona(
        [wi_id |-> wi_id, wi_type |-> wi_type, title |-> title,
         description |-> description.value, status |-> status,
         updated |-> updated, priority |-> priority, assignee |-> assignee,
         author |-> author, neurona_id |-> sanitize_id(wi_id.s),
         neurona_type |-> neurona_type.value,
         status_tag_list |-> status_tag_list.value,
         relationships |-> IF with_links THEN extract_relationships(data) ELSE <<>>]))

-----------------------------------------------------------------------------
(* Specification of the identifier normalizer *)

IdAlphabet == {"W", "i", "-", ".", "1"}

NormIdle == /\ raw = <<>>
            /\ ident = <<>>
            /\ prev = <<>>
            /\ napplied = 0

VocabIdle == /\ key = PyNone
             /\ lookup = [fn |-> "none"]

ParseIdle == /\ doc_text = <<>>
             /\ split = PyNone

TripIdle == /\ source = PyNone
            /\ converted = PyNone
            /\ loaded = PyNone

ValidIdle == /\ dir_exists = TRUE
             /\ unread = 0
             /\ verdicts = <<>>
             /\ document = <<>>
             /\ report = PyNone
             /\ vexit = PyNone
             /\ vpc = "idle"

LinkIdle == /\ link_data = PyNone
            /\ edges = PyNone

EmptyResults == [success |-> <<>>, failed |-> <<>>, total |-> 0, relationships |-> <<>>]

BatchIdle == /\ args = <<>>
             /\ items = <<>>
             /\ include_links = TRUE
             /\ pos = 1
             /\ results = EmptyResults
             /\ log = <<>>
             /\ neuronas = <<>>
             /\ assets = {}
             /\ manifest = PyNone
             /\ exit_code = PyNone
             /\ pc = "idle"

InitNormalize ==
    /\ raw \in StringsUpTo(IdAlphabet, MaxIdLen)
    /\ ident = raw
    /\ prev = raw
    /\ napplied = 0
    /\ VocabIdle
    /\ BatchIdle
    /\ ParseIdle
    /\ TripIdle
    /\ ValidIdle
    /\ LinkIdle

\* One call of sanitize_id on the current value.
Sanitize ==
    /\ napplied < MaxApply
    /\ prev' = ident
    /\ ident' = sanitize_id(ident)
    /\ napplied' = napplied + 1
    /\ UNCHANGED <<raw, exceptNorm>>

NextNormalize == Sanitize

SpecNormalize == InitNormalize /\ [][NextNormalize]_vars

-----------------------------------------------------------------------------
(* Specification of the vocabulary maps *)

KeyAlphabet == {"b", "u", "g", "B"}

\* Raw strings that are no key as written: keys in another letter case, and
\* words no vocabulary knows.
OtherWords ==
    {<<"S","y","s","t","e","m","R","e","q","u","i","r","e","m","e","n","t">>,
     <<"T","A","S","K">>,
     <<"t","e","s","t","c","a","s","e">>,
     <<"E","p","i","c">>,
     <<"w","i","d","g","e","t">>,
     <<"A","P","P","R","O","V","E","D">>,
     <<"D","r","a","f","t">>,
     <<"I","n","_","P","r","o","g","r","e","s","s">>,
     <<"u","n","k","n","o","w","n">>,
     <<"o","b","s","o","l","e","t","e">>,
     <<"P","a","r","e","n","t">>,
     <<"D","E","P","E","N","D","S","_","O","N">>,
     <<"d","u","p","l","i","c","a","t","e","s">>}

VocabularyWords == {Spelling[k] : k \in DOMAIN Spelling} \cup OtherWords

\* What a payload can carry where a type, status or role is expected.
RawKeys ==
    {PyStr(w) : w \in VocabularyWords \cup StringsUpTo(KeyAlphabet, MaxKeyLen)}
    \cup {PyNone, PyList(<<>>)}

InitVocabulary ==
    /\ key \in RawKeys
    /\ lookup = [fn |-> "none"]
    /\ NormIdle
    /\ BatchIdle
    /\ ParseIdle
    /\ TripIdle
    /\ ValidIdle
    /\ LinkIdle

MapType ==
    /\ lookup' = [fn |-> "type", out |-> map_wi_type_to_neurona_type(key)]
    /\ UNCHANGED <<key, exceptVocab>>

MapStatus ==
    /\ lookup' = [fn |-> "status", out |-> map_status_to_tags(key)]
    /\ UNCHANGED <<key, exceptVocab>>

MapLink ==
    /\ lookup' = [fn |-> "link", out |-> map_polarion_link_to_connection_type(key)]
    /\ UNCHANGED <<key, exceptVocab>>

NextVocabulary == MapType \/ MapStatus \/ MapLink

SpecVocabulary == InitVocabulary /\ [][NextVocabulary]_vars

-----------------------------------------------------------------------------
(* Specification of the batch run: main and process_work_items *)

ItemIds == {<<"W", "I", "-", "1">>, <<"w", "i", ".", "1">>, <<"W", "I", "-", "2">>}

Now == <<"2026", "-", "01", "-", "01", "T", "00", ":", "00", ":", "00">>

Attr(k, v) == k :> v

\* A payload as Polarion sends it for item_id: attributes, one link.
GoodPayload(item_id) ==
    PyDict(
      "data" :> PyDict(
        "attributes" :> PyDict(
            Attr("id", PyStr(item_id)) @@
            Attr("type", PyStr(Spelling["requirement"])) @@
            Attr("title", PyStr(<<"T", "1">>)) @@
            Attr("status", PyStr(Spelling["approved"])) @@
            Attr("description", PyDict(Attr("value", PyStr(<<"<", "p", ">", "a", "<", "/", "p", ">">>))))) @@
        "relationships" :> PyDict(
            "linkedWorkItems" :> PyDict(
                "data" :> PyList(<<PyDict(Attr("id", PyStr(<<"p", "/", "w", "i", ".", "9">>)) @@
                                          Attr("role", PyStr(Spelling["parent"])))>>)))))

\* A payload whose description is null: description_obj.get raises.
NullDescriptionPayload(item_id) ==
    PyDict("data" :> PyDict("attributes" :> PyDict(
        Attr("id", PyStr(item_id)) @@ Attr("description", PyNone))))

\* A payload that names the work item by the identifier Polarion keeps.
RenamedPayload ==
    PyDict("data" :> PyDict("attributes" :> PyDict(
        Attr("id", PyStr(<<"W", "I", "-", "1">>)))))

\* What one HTTP request for item_id can come to: status 200 with a JSON
\* body, another status, or an exception (timeout, refused connection, a
\* body that is no JSON, assets/ not writable).
Responses(item_id) ==
    {[kind |-> "ok", data |-> d] :
        d \in {GoodPayload(item_id), NullDescriptionPayload(item_id),
               RenamedPayload, EmptyDict, PyList(<<>>), PyNone}}
    \cup {[kind |-> "http", code |-> 404], [kind |-> "exception"]}

\* fetch_work_item: (data, None) or (None, error).
fetch_work_item(workitem_id, resp) ==
    CASE resp.kind = "ok" -> [data |-> resp.data, error |-> PyNone]
      [] resp.kind = "http" ->
            [data |-> PyNone, error |-> PyStr(<<"HTTP", " ", ToString(resp.code)>>)]
      [] resp.kind = "exception" ->
            [data |-> PyNone, error |-> PyStr(<<"str(e)">>)]

\* A loop body that forgets the entry of a failed conversion.
process_item_drops_conversion_errors(res, item_id, fetched, conv, write_ok) ==
    IF fetched.data = PyNone
    THEN [res EXCEPT !.failed = Append(@, [id |-> item_id, error |-> fetched.error])]
    ELSE IF conv.raised \/ ~write_ok
         THEN res
         ELSE [res EXCEPT
                 !.relationships = @ \o conv.value.relationships,
                 !.success = Append(@, [id |-> item_id,
                                        neurona_id |-> conv.value.neurona_id,
                                        file |-> Join(conv.value.neurona_id) \o ".md",
                                        relationships_count |-> Len(conv.value.relationships)])]

\* The body of the loop on results: fetched is what fetch_work_item gave,
\* conv what convert_to_neurona gave, write_ok whether the neurona file
\* could be written.
process_item(res, item_id, fetched, conv, write_ok) ==
    IF fetched.data = PyNone
    THEN [res EXCEPT !.failed = Append(@, [id |-> item_id, error |-> fetched.error])]
    ELSE IF conv.raised \/ ~write_ok
         THEN [res EXCEPT !.failed =
                 Append(@, [id |-> item_id, error |-> PyStr(<<"Conversion error: ", "str(e)">>)])]
         ELSE [res EXCEPT
                 !.relationships = @ \o conv.value.relationships,
                 !.success = Append(@, [id |-> item_id,
                                        neurona_id |-> conv.value.neurona_id,
                                        file |-> Join(conv.value.neurona_id) \o ".md",
                                        relationships_count |-> Len(conv.value.relationships)])]

InitBatch ==
    /\ args \in UNION {[1..k -> ItemIds] : k \in 0..MaxItems}
    /\ include_links \in BOOLEAN
    /\ items = <<>>
    /\ pos = 1
    /\ results = EmptyResults
    /\ log = <<>>
    /\ neuronas = <<>>
    /\ assets = {}
    /\ manifest = PyNone
    /\ exit_code = PyNone
    /\ pc = "start"
    /\ NormIdle
    /\ VocabIdle
    /\ ParseIdle
    /\ TripIdle
    /\ ValidIdle
    /\ LinkIdle

\* main up to the call of process_work_items: no items is an error; the
\* list is de-duplicated, first occurrences kept.
Main ==
    /\ pc = "start"
    /\ IF args = <<>>
       THEN /\ exit_code' = PyInt(1)
            /\ pc' = "done"
            /\ UNCHANGED <<items, results>>
       ELSE /\ items' = [i \in DOMAIN dedupe([j \in DOMAIN args |-> PyStr(args[j])]) |->
                            dedupe([j \in DOMAIN args |-> PyStr(args[j])])[i].s]
            /\ results' = [EmptyResults EXCEPT !.total = Len(items')]
            /\ pc' = "main_loop"
            /\ UNCHANGED exit_code
    /\ UNCHANGED <<args, include_links, pos, log, neuronas, assets, manifest,
                   exceptBatch>>

\* process_work_items called with a list as it is.
CallProcessWorkItems ==
    /\ pc = "start"
    /\ items' = args
    /\ results' = [EmptyResults EXCEPT !.total = Len(args)]
    /\ pc' = "loop"
    /\ UNCHANGED <<args, include_links, pos, log, neuronas, assets, manifest,
                   exit_code, exceptBatch>>

\* One pass of the loop: fetch, convert, write, record.
ProcessItem ==
    /\ pc \in {"loop", "main_loop"}
    /\ pos <= Len(items)
    /\ \E resp \in Responses(items[pos]), write_ok \in BOOLEAN :
          LET item_id == items[pos]
              fetched == fetch_work_item(item_id, resp)
              conv == convert_to_neurona(item_id, fetched.data, include_links, Now)
              saved == fetched.data # PyNone /\ ~conv.raised /\ write_ok
          IN /\ log' = Append(log, item_id)
             /\ assets' = IF resp.kind = "ok" THEN assets \cup {Join(item_id)} ELSE assets
             /\ results' = process_item(results, item_id, fetched, conv, write_ok)
             /\ neuronas' =
                   IF saved
                   THEN (Join(conv.value.neurona_id) \o ".md") :>
                            [content |-> conv.value.content, id |-> item_id]
                        @@ neuronas
                   ELSE neuronas
    /\ pos' = pos + 1
    /\ UNCHANGED <<args, items, include_links, manifest, exit_code, pc,
                   exceptBatch>>

\* After the loop: the summary is printed and the manifest written.
SaveManifest ==
    /\ pc \in {"loop", "main_loop"}
    /\ pos > Len(items)
    /\ manifest' = results
    /\ pc' = IF pc = "main_loop" THEN "main_return" ELSE "done"
    /\ UNCHANGED <<args, items, include_links, pos, results, log, neuronas,
                   assets, exit_code, exceptBatch>>

\* main's exit code: 0 when nothing failed.
MainReturn ==
    /\ pc = "main_return"
    /\ exit_code' = IF results.failed = <<>> THEN PyInt(0) ELSE PyInt(1)
    /\ pc' = "done"
    /\ UNCHANGED <<args, items, include_links, pos, results, log, neuronas,
                   assets, manifest, exceptBatch>>

NextBatch == Main \/ CallProcessWorkItems \/ ProcessItem \/ SaveManifest \/ MainReturn

SpecBatch == InitBatch /\ [][NextBatch]_vars

-----------------------------------------------------------------------------
(* validate_compliance.py: the split of a document into header and body *)

Delimiter == <<"-", "-", "-", "\n">>

\* load_neurona up to the decoding of the header: the error, or the header
\* text handed to yaml.safe_load and the stripped body.
split_document(content) ==
    IF ~str_startswith(content, Delimiter)
    THEN [error |-> "Missing frontmatter"]
    ELSE LET parts == str_split(content, Delimiter, 2)
         IN IF Len(parts) < 3
            THEN [error |-> "Invalid frontmatter format"]
            ELSE [error |-> "", header |-> parts[2], body |-> str_strip(parts[3])]

-----------------------------------------------------------------------------
(* validate_compliance.py: yaml.safe_load on a header and load_neurona      *)
(*                                                                         *)
(* The decoder covers the YAML the converter writes: a block mapping of    *)
(* "key: value" lines, one level of nested lines indented by two blanks,   *)
(* plain scalars, double-quoted scalars without escapes, and flow          *)
(* sequences of such scalars. An int is [t |-> "int"], a float             *)
(* [t |-> "float", text |-> its digits].                                   *)

PyFloat(chars) == [t |-> "float", text |-> chars]

Digits == <<"0", "1", "2", "3", "4", "5", "6", "7", "8", "9">>

IsDigit(c) == \E i \in DOMAIN Digits : Digits[i] = c
DigitValue(c) == (CHOOSE i \in DOMAIN Digits : Digits[i] = c) - 1
IsDigits(chars) == chars # <<>> /\ \A i \in DOMAIN chars : IsDigit(chars[i])

\* The number a run of digits writes in a base.
RECURSIVE number_in_base(_, _)
number_in_base(chars, base) ==
    IF chars = <<>> THEN 0
    ELSE number_in_base(SubSeq(chars, 1, Len(chars) - 1), base) * base
         + DigitValue(chars[Len(chars)])

\* The value of digit groups read in base 60 (YAML 1.1 sexagesimal ints).
RECURSIVE sexagesimal(_)
sexagesimal(groups) ==
    IF groups = <<>> THEN 0
    ELSE sexagesimal(SubSeq(groups, 1, Len(groups) - 1)) * 60
         + number_in_base(groups[Len(groups)], 10)

\* str.strip(" ")
RECURSIVE strip_blanks(_)
strip_blanks(chars) ==
    IF chars = <<>> THEN chars
    ELSE IF Head(chars) = " " THEN strip_blanks(Tail(chars))
    ELSE IF chars[Len(chars)] = " " THEN strip_blanks(SubSeq(chars, 1, Len(chars) - 1))
    ELSE chars

\* The positions of a ":" that YAML reads as the value indicator: one
\* followed by a blank or by the end of the line.
ValueIndicators(chars) ==
    {i \in DOMAIN chars : chars[i] = ":" /\ (i = Len(chars) \/ chars[i + 1] = " ")}

\* The implicit type of a plain scalar (YAML 1.1, as PyYAML resolves it).
resolve_plain(chars) ==
    LET groups == str_split(chars, <<":">>, -1)
        halves == str_split(chars, <<".">>, -1)
    IN CASE IsDigits(chars) /\ (Len(chars) = 1 \/ chars[1] # "0") ->
                PyInt(number_in_base(chars, 10))
         [] IsDigits(chars) /\ Len(chars) > 1 /\ chars[1] = "0"
               /\ (\A i \in DOMAIN chars : DigitValue(chars[i]) < 8) ->
                PyInt(number_in_base(chars, 8))
         [] Len(groups) > 1 /\ (\A i \in DOMAIN groups : IsDigits(groups[i]))
               /\ groups[1][1] # "0"
               /\ (\A i \in 2..Len(groups) :
                      Len(groups[i]) <= 2 /\ number_in_base(groups[i], 10) < 60) ->
                PyInt(sexagesimal(groups))
         [] Len(halves) = 2 /\ IsDigits(halves[1])
               /\ (halves[2] = <<>> \/ IsDigits(halves[2])) ->
                PyFloat(chars)
         [] Join(chars) \in {"null", "Null", "NULL", "~"} -> PyNone
         [] Join(chars) \in {"true", "True", "TRUE", "yes", "Yes", "YES", "on", "On", "ON"} ->
                [t |-> "bool", b |-> TRUE]
         [] Join(chars) \in {"false", "False", "FALSE", "no", "No", "NO", "off", "Off", "OFF"} ->
                [t |-> "bool", b |-> FALSE]
         [] OTHER -> PyStr(chars)

\* A scalar that is the value of a key, blanks stripped: double-quoted, or
\* plain. A plain scalar with a value indicator in it is an error ("mapping
\* values are not allowed here").
yaml_scalar(chars) ==
    IF chars[1] = "\""
    THEN LET closing == {i \in 2..Len(chars) : chars[i] = "\""}
         IN IF closing = {} THEN Raise("YAMLError")
            ELSE LET j == CHOOSE a \in closing : \A b \in closing : a <= b
                 IN IF j # Len(chars) THEN Raise("YAMLError")
                    ELSE Return(PyStr(SubSeq(chars, 2, j - 1)))
    ELSE IF ValueIndicators(chars) # {} THEN Raise("YAMLError")
    ELSE Return(resolve_plain(chars))

\* A flow sequence [item, item, ...] of scalars that hold no comma.
yaml_flow_sequence(chars) ==
    IF chars[Len(chars)] # "]" THEN Raise("YAMLError")
    ELSE LET inner == strip_blanks(SubSeq(chars, 2, Len(chars) - 1))
             texts == IF inner = <<>> THEN <<>> ELSE str_split(inner, <<",">>, -1)
             elems == [i \in DOMAIN texts |->
                          IF strip_blanks(texts[i]) = <<>> THEN Raise("YAMLError")
                          ELSE yaml_scalar(strip_blanks(texts[i]))]
         IN IF \E i \in DOMAIN elems : elems[i].raised THEN Raise("YAMLError")
            ELSE Return(PyList([i \in DOMAIN elems |-> elems[i].value]))

\* The value written after "key:" on one line.
yaml_inline(rest) ==
    LET v == strip_blanks(rest)
    IN IF v = <<>> THEN Return(PyNone)
       ELSE IF v[1] = "[" THEN yaml_flow_sequence(v)
       ELSE yaml_scalar(v)

\* A line "key: rest" cut at its first value indicator.
split_key(line) ==
    LET at == ValueIndicators(line)
        i == CHOOSE a \in at : \A b \in at : a <= b
    IN IF at = {} THEN [found |-> FALSE]
       ELSE [found |-> TRUE, key |-> SubSeq(line, 1, i - 1),
             rest |-> SubSeq(line, i + 1, Len(line))]

\* A mapping whose lines all are "key: scalar" (the nested context block).
RECURSIVE yaml_flat_mapping(_, _)
yaml_flat_mapping(lines, acc) ==
    IF lines = <<>> THEN Return(PyDict(acc))
    ELSE LET kv == split_key(strip_blanks(Head(lines)))
         IN IF ~kv.found THEN Raise("YAMLError")
            ELSE LET val == yaml_inline(kv.rest)
                 IN IF val.raised THEN val
                    ELSE yaml_flat_mapping(Tail(lines), (Join(kv.key) :> val.value) @@ acc)

\* The number of lines at the head of lines that are indented.
RECURSIVE indented_prefix(_)
indented_prefix(lines) ==
    IF lines = <<>> \/ Head(lines) = <<>> \/ Head(lines)[1] # " " THEN 0
    ELSE 1 + indented_prefix(Tail(lines))

\* The top-level block mapping: every line that is not indented opens a key;
\* the indented lines after it are its nested mapping.
RECURSIVE yaml_mapping(_, _)
yaml_mapping(lines, acc) ==
    IF lines = <<>> THEN Return(PyDict(acc))
    ELSE LET kv == split_key(Head(lines))
             n == indented_prefix(Tail(lines))
             nested == SubSeq(lines, 2, n + 1)
             rest == SubSeq(lines, n + 2, Len(lines))
         IN IF ~kv.found \/ Head(lines)[1] = " " THEN Raise("YAMLError")
            ELSE LET val == IF nested = <<>> THEN yaml_inline(kv.rest)
                            ELSE IF strip_blanks(kv.rest) # <<>> THEN Raise("YAMLError")
                            ELSE yaml_flat_mapping(nested, <<>>)
                 IN IF val.raised THEN val
                    ELSE yaml_mapping(rest, (Join(kv.key) :> val.value) @@ acc)

\* yaml.safe_load(text): None for a text without content.
yaml_safe_load(text) ==
    LET segs == str_split(text, NL, -1)
        lines == SelectSeq(segs, LAMBDA l : strip_blanks(l) # <<>>)
    IN IF lines = <<>> THEN Return(PyNone)
       ELSE yaml_mapping(lines, <<>>)

\* load_neurona(filepath) on the content of the file: Return of the pair
\* (neurona, error), or the exception of the decoder.
load_neurona(content) ==
    LET sp == split_document(content)
    IN IF sp.error # "" THEN Return([neurona |-> PyNone, error |-> sp.error])
       ELSE LET fm == yaml_safe_load(sp.header)
            IN IF fm.raised THEN fm
               ELSE Return([neurona |-> [frontmatter |-> fm.value, body |-> sp.body],
                            error |-> ""])

-----------------------------------------------------------------------------
(* validate_compliance.py: the three tiers and validate_neurona *)

\* "." in v: containment in a str, a list or the keys of a dict; any other
\* value is not iterable.
contains_dot(v) ==
    CASE v.t = "str" -> Return(str_contains(v.s, <<".">>))
      [] v.t = "list" -> Return(\E i \in DOMAIN v.l : PyEq(v.l[i], PyStr(<<".">>)))
      [] v.t = "dict" -> Return("." \in DOMAIN v.d)
      [] OTHER -> Raise("TypeError")

\* len(v)
py_len(v) ==
    CASE v.t = "str" -> Return(Len(v.s))
      [] v.t = "list" -> Return(Len(v.l))
      [] v.t = "dict" -> Return(Cardinality(DOMAIN v.d))
      [] OTHER -> Raise("TypeError")

required == <<"id", "title", "tags">>

\* The loop over the required fields.
RECURSIVE required_issues(_, _)
required_issues(fm, fields) ==
    IF fields = <<>> THEN <<>>
    ELSE (IF Head(fields) \notin DOMAIN fm.d
          THEN <<"Missing Tier 1 field: " \o Head(fields)>>
          ELSE IF ~Truthy(fm.d[Head(fields)])
          THEN <<"Empty Tier 1 field: " \o Head(fields)>>
          ELSE <<>>) \o required_issues(fm, Tail(fields))

\* validate_tier1: Return of the issue list, or the exception raised. A
\* header that is no mapping is None here: "field not in None" raises.
validate_tier1(neurona) ==
    LET fm == neurona.frontmatter
    IN IF fm.t # "dict" THEN Raise("TypeError")
       ELSE LET dot == IF "id" \in DOMAIN fm.d THEN contains_dot(fm.d["id"])
                       ELSE Return(TRUE)
            IN IF dot.raised THEN dot
               ELSE Return(
                      required_issues(fm, required)
                      \o (IF ~dot.value THEN <<"ID should use dot notation">> ELSE <<>>)
                      \o (IF "tags" \in DOMAIN fm.d /\ fm.d["tags"].t # "list"
                          THEN <<"Tags should be a list">>
                          ELSE <<>>))

valid_types ==
    <<"concept", "reference", "artifact", "state_machine", "lesson",
      "requirement", "test_case", "issue", "feature">>

validate_tier2(neurona) ==
    LET fm == neurona.frontmatter
    IN IF fm.t # "dict" THEN Raise("TypeError")
       ELSE Return(
              (IF "type" \in DOMAIN fm.d
                  /\ ~\E i \in DOMAIN valid_types :
                        PyEq(fm.d["type"], PyStr(<<valid_types[i]>>))
               THEN <<"Invalid type">> ELSE <<>>)
              \o (IF "updated" \in DOMAIN fm.d /\ fm.d["updated"].t # "str"
                  THEN <<"Updated should be string">> ELSE <<>>)
              \o (IF "language" \in DOMAIN fm.d
                     /\ (fm.d["language"].t # "str" \/ Len(fm.d["language"].s) # 2)
                  THEN <<"Language should be 2-char code">> ELSE <<>>))

\* 1 <= d <= 4: an int or a bool is compared, a float is compared by its
\* integer part; any other type raises TypeError.
depth_in_range(d) ==
    CASE d.t = "int" -> Return(1 <= d.n /\ d.n <= 4)
      [] d.t = "bool" -> Return(d.b)
      [] d.t = "float" ->
            LET whole == number_in_base(str_split(d.text, <<".">>, -1)[1], 10)
                frac == str_split(d.text, <<".">>, -1)[2]
            IN Return(1 <= whole /\ (whole < 4 \/ (whole = 4 /\ \A i \in DOMAIN frac : frac[i] = "0")))
      [] OTHER -> Raise("TypeError")

validate_tier3(neurona) ==
    LET fm == neurona.frontmatter
    IN IF fm.t # "dict" THEN Raise("TypeError")
       ELSE LET llm == IF "_llm" \in DOMAIN fm.d THEN fm.d["_llm"] ELSE EmptyDict
                depth == IF llm.t = "dict" /\ "d" \in DOMAIN llm.d
                         THEN depth_in_range(llm.d["d"])
                         ELSE Return(TRUE)
            IN IF depth.raised THEN depth
               ELSE Return(
                      (IF "context" \in DOMAIN fm.d /\ fm.d["context"].t # "dict"
                       THEN <<"Context should be dict">> ELSE <<>>)
                      \o (IF llm.t # "dict" THEN <<"_llm should be dict">>
                          ELSE (IF ~depth.value THEN <<"_llm.d should be 1-4">> ELSE <<>>)
                               \o (IF "k" \in DOMAIN llm.d /\ llm.d["k"].t # "list"
                                   THEN <<"_llm.k should be list">> ELSE <<>>)))

\* A policy under which any issue makes the document non-compliant.
verdict_any_issue_fails(tier1_issues, tier2_issues, tier3_issues) ==
    IF tier1_issues \o tier2_issues \o tier3_issues = <<>>
    THEN [returns |-> TRUE, printed |-> "COMPLIANT"]
    ELSE [returns |-> FALSE, printed |-> "NON-COMPLIANT"]

\* The end of validate_neurona: what is printed and returned for the three
\* issue lists.
verdict(tier1_issues, tier2_issues, tier3_issues) ==
    IF tier1_issues \o tier2_issues \o tier3_issues = <<>>
    THEN [returns |-> TRUE, printed |-> "COMPLIANT"]
    ELSE IF tier1_issues # <<>>
    THEN [returns |-> FALSE, printed |-> "NON-COMPLIANT"]
    ELSE [returns |-> TRUE, printed |-> "COMPLIANT WITH WARNINGS"]

NoTiers == [tier1 |-> PyNone, tier2 |-> PyNone, tier3 |-> PyNone]

\* The report and the verdict of validate_neurona once the three issue
\* lists are computed: the report takes len(fm.get('tags', [])).
print_report(fm, tier1_issues, tier2_issues, tier3_issues) ==
    IF "tags" \in DOMAIN fm.d /\ py_len(fm.d["tags"]).raised
    THEN [outcome |-> "raised", exc |-> "TypeError", frontmatter |-> fm,
          tier1 |-> tier1_issues, tier2 |-> tier2_issues, tier3 |-> tier3_issues]
    ELSE [outcome |-> "returned", frontmatter |-> fm,
          tier1 |-> tier1_issues, tier2 |-> tier2_issues, tier3 |-> tier3_issues]
         @@ verdict(tier1_issues, tier2_issues, tier3_issues)

\* The three tier calls of validate_neurona, in order; an exception of one
\* leaves validate_neurona.
run_tiers(fm, t1, t2, t3) ==
    IF t1.raised
    THEN [outcome |-> "raised", exc |-> t1.exc, frontmatter |-> fm] @@ NoTiers
    ELSE IF t2.raised
    THEN [outcome |-> "raised", exc |-> t2.exc, frontmatter |-> fm,
          tier1 |-> t1.value] @@ NoTiers
    ELSE IF t3.raised
    THEN [outcome |-> "raised", exc |-> t3.exc, frontmatter |-> fm,
          tier1 |-> t1.value, tier2 |-> t2.value] @@ NoTiers
    ELSE print_report(fm, t1.value, t2.value, t3.value)

\* validate_neurona after its call of load_neurona, whose result is ld.
validate_loaded(ld) ==
    IF ld.raised
    THEN [outcome |-> "raised", exc |-> ld.exc, frontmatter |-> PyNone] @@ NoTiers
    ELSE IF ld.value.error # ""
    THEN [outcome |-> "returned", returns |-> FALSE, printed |-> "FAILED",
          error |-> ld.value.error, frontmatter |-> PyNone] @@ NoTiers
    ELSE run_tiers(ld.value.neurona.frontmatter,
                   validate_tier1(ld.value.neurona),
                   validate_tier2(ld.value.neurona),
                   validate_tier3(ld.value.neurona))

\* validate_neurona on the content of a file. outcome is "returned" or
\* "raised"; frontmatter is the decoded header once load_neurona gave one;
\* tier1..tier3 are the issue lists once computed; printed and returns are
\* the verdict line and the return value.
validate_neurona(content) == validate_loaded(load_neurona(content))

-----------------------------------------------------------------------------
(* Specification of the validator: main of validate_compliance.py *)

Line(k, value) == <<k, ":", " ">> \o value \o NL
NullLine(k) == <<k, ":">> \o NL
Quoted(chars) == <<"\"">> \o chars \o <<"\"">>

IdLines ==
    {<<>>, Line("id", <<"w", "i", ".", "1">>), Line("id", <<"w", "i", "1">>),
     Line("id", Quoted(<<>>)), Line("id", <<"5">>), NullLine("id")}

TitleLines == {<<>>, Line("title", <<"T">>), Line("title", Quoted(<<>>))}

TagsLines ==
    {<<>>, Line("tags", <<"[">> \o Quoted(<<"a">>) \o <<"]">>), Line("tags", <<"[", "]">>),
     Line("tags", <<"a">>), NullLine("tags")}

TypeLines ==
    {<<>>, Line("type", <<"concept">>), Line("type", <<"task">>),
     Line("type", <<"reference">>), Line("type", <<"widget">>)}

\* Lines of the Tier 2 and Tier 3 fields other than type.
OtherLines ==
    {<<>>,
     Line("updated", Quoted(Now)),
     Line("updated", <<"5">>),
     Line("language", <<"e", "n">>),
     Line("language", <<"e", "n", "g">>),
     NullLine("context") \o <<" ", " ">> \o Line("status", Quoted(<<"x">>)),
     Line("context", <<"a">>),
     Line("_llm", <<"a">>),
     NullLine("_llm") \o <<" ", " ">> \o Line("d", <<"2">>),
     NullLine("_llm") \o <<" ", " ">> \o Line("d", <<"9">>),
     NullLine("_llm") \o <<" ", " ">> \o Line("d", <<"x">>),
     NullLine("_llm") \o <<" ", " ">> \o Line("k", <<"a">>),
     NullLine("_llm") \o <<" ", " ">> \o Line("d", <<"1">>)
         \o <<" ", " ">> \o Line("k", <<"[">> \o Quoted(<<"a">>) \o <<"]">>)}

\* Every combination of the Tier 1 lines and the type line, and every other
\* field in a header whose Tier 1 lines are sound or lack the id.
Headers ==
    {i \o ti \o ty \o ta :
        i \in IdLines, ti \in TitleLines, ty \in TypeLines, ta \in TagsLines}
    \cup {i \o Line("title", <<"T">>) \o ty
              \o Line("tags", <<"[">> \o Quoted(<<"a">>) \o <<"]">>) \o o :
            i \in {<<>>, Line("id", <<"w", "i", ".", "1">>)}, ty \in TypeLines,
            o \in OtherLines}

BodyText == <<"\n", "B", "\n">>

\* The files validate_neurona can meet: a header between two delimiters, a
\* file that does not begin with the delimiter, a header never closed.
Documents ==
    {Delimiter \o h \o Delimiter \o BodyText : h \in Headers}
    \cup {Line("id", <<"w", "i", ".", "1">>) \o Delimiter \o BodyText,
          Delimiter \o Line("id", <<"w", "i", ".", "1">>) \o BodyText}

\* validate_neurona on each of the files.
Reports == [content \in Documents |-> validate_neurona(content)]

InitValidate ==
    /\ dir_exists \in BOOLEAN
    /\ unread \in 0..MaxFiles
    /\ verdicts = <<>>
    /\ document = <<>>
    /\ report = PyNone
    /\ vexit = PyNone
    /\ vpc = "start"
    /\ NormIdle
    /\ VocabIdle
    /\ BatchIdle
    /\ ParseIdle
    /\ TripIdle
    /\ LinkIdle

\* main up to the loop: without the directory or without files it returns 1.
ValidatorStart ==
    /\ vpc = "start"
    /\ IF ~dir_exists \/ unread = 0
       THEN vexit' = PyInt(1) /\ vpc' = "done"
       ELSE vexit' = vexit /\ vpc' = "loop"
    /\ UNCHANGED <<dir_exists, unread, verdicts, document, report, exceptValid>>

\* One pass of main's loop: validate_neurona on the next file. An exception
\* leaves main; the script prints it and exits with 1.
ValidateFile ==
    /\ vpc = "loop"
    /\ unread > 0
    /\ \E content \in Documents :
          /\ document' = content
          /\ report' = Reports[content]
    /\ IF report'.outcome = "raised"
       THEN /\ vpc' = "crashed"
            /\ vexit' = PyInt(1)
            /\ UNCHANGED <<verdicts, unread>>
       ELSE /\ verdicts' = Append(verdicts, report'.returns)
            /\ unread' = unread - 1
            /\ UNCHANGED <<vpc, vexit>>
    /\ UNCHANGED <<dir_exists, exceptValid>>

\* A summary that returns 0 whatever the results are.
exit_status_ignores_results(file_results) == PyInt(0)

\* What main returns after the loop: 0 if all(results.values()), else 1.
exit_status(file_results) ==
    IF \A i \in DOMAIN file_results : file_results[i] THEN PyInt(0) ELSE PyInt(1)

\* The summary and main's return value.
ValidatorSummary ==
    /\ vpc = "loop"
    /\ unread = 0
    /\ vexit' = exit_status(verdicts)
    /\ vpc' = "done"
    /\ UNCHANGED <<dir_exists, unread, verdicts, document, report, exceptValid>>

NextValidate == ValidatorStart \/ ValidateFile \/ ValidatorSummary

SpecValidate == InitValidate /\ [][NextValidate]_vars

-----------------------------------------------------------------------------
(* Specification of the document split *)

DocAlphabet == {"-", "\n", "a"}

InitParse ==
    /\ doc_text \in StringsUpTo(DocAlphabet, MaxDocLen)
    /\ split = PyNone
    /\ NormIdle
    /\ VocabIdle
    /\ BatchIdle
    /\ TripIdle
    /\ ValidIdle
    /\ LinkIdle

\* load_neurona reads the file and splits it.
SplitDocument ==
    /\ split = PyNone
    /\ split' = split_document(doc_text)
    /\ UNCHANGED <<doc_text, exceptParse>>

NextParse == SplitDocument

SpecParse == InitParse /\ [][NextParse]_vars

-----------------------------------------------------------------------------
(* Specification of the round trip: convert_to_neurona, then load_neurona *)

TitleAlphabet == {"a", "1", ":"}

Titles ==
    (StringsUpTo(TitleAlphabet, MaxTitleLen) \ {<<>>})
    \cup {<<"a", ":", " ", "a">>, <<"T", "1">>, <<"a", " ", "s", "e", "n", "s", "o", "r">>}

OneLink == PyDict(
    "linkedWorkItems" :> PyDict(
        "data" :> PyList(<<PyDict(Attr("id", PyStr(<<"p", "/", "w", "i", ".", "9">>)) @@
                                  Attr("role", PyStr(Spelling["depends_on"])))>>)))

\* A payload with the given attributes.
Payload(wi_id, title, description, priority, rels) ==
    PyDict("data" :> PyDict(
        "attributes" :> PyDict(
            Attr("id", PyStr(wi_id)) @@
            Attr("type", PyStr(Spelling["testCase"])) @@
            Attr("title", PyStr(title)) @@
            Attr("status", PyStr(Spelling["draft"])) @@
            Attr("updated", PyStr(Now)) @@
            Attr("priority", priority) @@
            Attr("assignee", PyDict(Attr("id", PyStr(<<"u", "1">>)))) @@
            Attr("description", PyDict(Attr("value", PyStr(description))))) @@
        "relationships" :> rels))

InitRoundTrip ==
    /\ \E wi_id \in {<<"W", "I", "-", "1">>, <<"1", "-", "1">>},
          title \in Titles,
          description \in {<<>>, <<"<", "b", ">", "a", " ", "b">>},
          priority \in {PyNone, PyStr(<<"high">>), PyInt(2)},
          rels \in {EmptyDict, OneLink} :
          source = [id |-> wi_id,
                    data |-> Payload(wi_id, title, description, priority, rels)]
    /\ converted = PyNone
    /\ loaded = PyNone
    /\ NormIdle
    /\ VocabIdle
    /\ BatchIdle
    /\ ParseIdle
    /\ ValidIdle
    /\ LinkIdle

\* The work item is converted to a document.
Convert ==
    /\ converted = PyNone
    /\ converted' = convert_to_neurona(source.id, source.data, TRUE, Now)
    /\ UNCHANGED <<source, loaded, exceptTrip>>

\* The document is read back.
Load ==
    /\ converted # PyNone
    /\ ~converted.raised
    /\ loaded = PyNone
    /\ loaded' = load_neurona(converted.value.content)
    /\ UNCHANGED <<source, converted, exceptTrip>>

NextRoundTrip == Convert \/ Load

SpecRoundTrip == InitRoundTrip /\ [][NextRoundTrip]_vars

-----------------------------------------------------------------------------
(* Claims on the identifier normalizer *)

HyphenCount(chars) == Cardinality({i \in DOMAIN chars : chars[i] = "-"})

\* C8: identifier normalization is idempotent: applying sanitize_id to a
\* value sanitize_id returned gives that value again.
C8_Idempotent == napplied >= 2 => ident = prev

C8_Witness == /\ napplied = 2
              /\ HyphenCount(raw) >= 2
              /\ \E i \in DOMAIN raw : raw[i] = "W"

\* C9 (as stated): sanitize_id lower-cases its input and replaces only the
\* first hyphen with a dot; every later hyphen is kept.
C9_FirstHyphenOnly ==
    napplied = 1 =>
        /\ Len(ident) = Len(raw)
        /\ \A i \in DOMAIN raw :
              ident[i] = IF raw[i] = "-" /\ \A j \in 1..(i - 1) : raw[j] # "-"
                         THEN "."
                         ELSE lower_char(raw[i])

\* C9 (amended): sanitize_id lower-cases its input and replaces every hyphen
\* with a dot; every other character is kept, and an input without a hyphen
\* is returned lower-cased only.
C9_EveryHyphen ==
    napplied = 1 =>
        /\ Len(ident) = Len(raw)
        /\ \A i \in DOMAIN raw :
              ident[i] = IF raw[i] = "-" THEN "." ELSE lower_char(raw[i])

C9_Witness == /\ napplied = 1
              /\ HyphenCount(raw) >= 2
              /\ ident # raw

-----------------------------------------------------------------------------
(* Claims on the batch run *)

Count(seq, x) == Cardinality({i \in DOMAIN seq : seq[i] = x})
EntryIds(entries) == [i \in DOMAIN entries |-> entries[i].id]

\* C7: batch isolation. process_work_items handles every identifier in input
\* order whatever fails on the way; each pass of the loop adds one entry to
\* success or to failed, and in the manifest every identifier has as many
\* entries, in success and failed together, as it has places in the input,
\* so len(success) + len(failed) = total.
C7_BatchIsolation ==
    /\ pc \in {"loop", "main_loop"} =>
          /\ log = SubSeq(items, 1, pos - 1)
          /\ Len(results.success) + Len(results.failed) = pos - 1
    /\ manifest # PyNone =>
          /\ log = items
          /\ manifest.total = Len(items)
          /\ Len(manifest.success) + Len(manifest.failed) = manifest.total
          /\ \A id \in ItemIds :
                Count(EntryIds(manifest.success), id) + Count(EntryIds(manifest.failed), id)
                   = Count(items, id)

C7_Witness ==
    /\ manifest # PyNone
    /\ Len(items) = 2
    /\ Len(manifest.failed) = 1
    /\ manifest.failed[1].id = items[1]
    /\ manifest.failed[1].error = PyStr(<<"Conversion error: ", "str(e)">>)
    /\ Len(manifest.success) = 1
    /\ manifest.success[1].id = items[2]

-----------------------------------------------------------------------------
(* Claims on the document split *)

\* The segments of a text between its line breaks: all but the last are the
\* lines that end in a line break, the last is what follows the last break.
Segments(chars) == str_split(chars, NL, -1)

\* The delimiter lines: the lines that are exactly three dashes and a break.
DelimiterLines(chars) ==
    {i \in 1..(Len(Segments(chars)) - 1) : Segments(chars)[i] = <<"-", "-", "-">>}

\* Lines from..to of chars, each with its line break.
RECURSIVE LinesText(_, _, _)
LinesText(lines, from, to) ==
    IF from > to THEN <<>>
    ELSE lines[from] \o NL \o LinesText(lines, from + 1, to)

\* C5: load_neurona fails with the missing-frontmatter error iff the document
\* does not begin with the three-dash delimiter line; otherwise with the
\* malformed-frontmatter error iff the document has fewer than two delimiter
\* lines; otherwise it succeeds, the header being the text between the first
\* two delimiter lines and the body the trimmed remainder.
C5_DelimiterLines ==
    split # PyNone =>
        LET segs == Segments(doc_text)
            delims == DelimiterLines(doc_text)
            second == CHOOSE i \in delims \ {1} : \A j \in delims \ {1} : i <= j
        IN IF ~(1 \in delims)
           THEN split.error = "Missing frontmatter"
           ELSE IF Cardinality(delims) < 2
           THEN split.error = "Invalid frontmatter format"
           ELSE /\ split.error = ""
                /\ split.header = LinesText(segs, 2, second - 1)
                /\ split.body = str_strip(LinesText(segs, second + 1, Len(segs) - 1)
                                          \o segs[Len(segs)])

\* The split agrees with the claim on the documents whose three-dash runs all
\* are whole lines.
C5_HoldsOnWholeLines ==
    (split # PyNone /\ \A i \in 1..(Len(Segments(doc_text)) - 1) :
          str_contains(Segments(doc_text)[i], <<"-", "-", "-">>)
             => Segments(doc_text)[i] = <<"-", "-", "-">>)
       => C5_DelimiterLines

-----------------------------------------------------------------------------
(* Claims on the vocabulary maps *)

\* A raw string is in a vocabulary when it equals one of its keys, letter
\* case apart.
InVocabulary(v, d) ==
    \E k \in DOMAIN d : str_lower(Spelling[k]) = str_lower(v.s)

\* C10: for a raw type, status or role string that is in no vocabulary, each
\* map returns without raising and gives its documented default: concept,
\* ["unknown"], relates_to.
C10_DefaultTotality ==
    /\ (lookup.fn = "type" /\ key.t = "str" /\ ~InVocabulary(key, type_mapping))
          => lookup.out = Return("concept")
    /\ (lookup.fn = "status" /\ key.t = "str" /\ ~InVocabulary(key, status_tags))
          => lookup.out = Return(<<"unknown">>)
    /\ (lookup.fn = "link" /\ key.t = "str" /\ ~InVocabulary(key, link_mapping))
          => lookup.out = Return("relates_to")

C10_Witness == /\ lookup.fn = "status"
               /\ key = PyStr(<<"o","b","s","o","l","e","t","e">>)
               /\ lookup.out = Return(<<"unknown">>)

-----------------------------------------------------------------------------
(* Claims on the round trip *)

\* The header and the body read back from the document reproduce the record
\* the document was written from: id, title, type, tags, updated, the status
\* and the priority of the context, the connections as type:target:weight
\* strings, and the body followed by the metadata section.
Reproduces(ld, r) ==
    /\ ~ld.raised
    /\ ld.value.error = ""
    /\ LET fm == ld.value.neurona.frontmatter
           body == ld.value.neurona.body
           lead == IF r.body = <<>> THEN <<>> ELSE r.body \o <<"\n", "\n">>
       IN /\ fm.t = "dict"
          /\ {"id", "title", "type", "tags", "updated", "context"} \subseteq DOMAIN fm.d
          /\ PyEq(fm.d["id"], PyStr(r.id))
          /\ PyEq(fm.d["title"], PyStr(r.title))
          /\ PyEq(fm.d["type"], PyStr(<<r.type>>))
          /\ fm.d["tags"].t = "list"
          /\ Len(fm.d["tags"].l) = Len(r.tags)
          /\ \A i \in DOMAIN r.tags : PyEq(fm.d["tags"].l[i], r.tags[i])
          /\ PyEq(fm.d["updated"], PyStr(r.updated))
          /\ fm.d["context"].t = "dict"
          /\ "status" \in DOMAIN fm.d["context"].d
          /\ PyEq(fm.d["context"].d["status"], PyStr(r.status))
          /\ Truthy(r.priority) <=> "priority" \in DOMAIN fm.d["context"].d
          /\ Truthy(r.priority) => PyEq(fm.d["context"].d["priority"], r.priority)
          /\ r.connections # <<>> <=> "connections" \in DOMAIN fm.d
          /\ r.connections # <<>> =>
                /\ fm.d["connections"].t = "list"
                /\ Len(fm.d["connections"].l) = Len(r.connections)
                /\ \A i \in DOMAIN r.connections :
                      PyEq(fm.d["connections"].l[i],
                           PyStr(<<r.connections[i].connection_type, ":">>
                                 \o r.connections[i].target_id
                                 \o <<":", ToString(r.connections[i].weight)>>))
          /\ Len(body) >= Len(lead) + 3
          /\ SubSeq(body, 1, Len(lead)) = lead
          /\ SubSeq(body, Len(lead) + 1, Len(lead) + 3) = <<"##", " ", "Metadata">>

\* C6: round trip. Reading the document that convert_to_neurona wrote gives a
\* header that reproduces the record's id, title, type, tags, updated,
\* context and connections, and a body equal to the record's body followed
\* by the metadata section.
C6_RoundTrip ==
    loaded # PyNone => Reproduces(loaded, converted.value.record)

\* A text that YAML reads as the same string when it is written unquoted.
PlainText(chars) ==
    /\ ValueIndicators(chars) = {}
    /\ resolve_plain(chars) = PyStr(chars)

\* The round trip holds for the records whose id and title are plain text.
C6_HoldsOnPlainText ==
    (/\ loaded # PyNone
     /\ PlainText(converted.value.record.id)
     /\ PlainText(converted.value.record.title))
       => Reproduces(loaded, converted.value.record)

C6_PlainTextReached ==
    /\ loaded # PyNone
    /\ PlainText(converted.value.record.id)
    /\ PlainText(converted.value.record.title)
    /\ converted.value.record.connections # <<>>
    /\ converted.value.record.body # <<>>
    /\ Truthy(converted.value.record.priority)

-----------------------------------------------------------------------------
(* Claims on the validator *)

\* A file has been through validate_neurona.
Validated == document # <<>>

\* The file parses: load_neurona returns a neurona.
Parses(content) ==
    LET ld == load_neurona(content) IN ~ld.raised /\ ld.value.error = ""

\* The header read from the file.
HeaderOf(content) == load_neurona(content).value.neurona.frontmatter

Present(fm, field) == fm.t = "dict" /\ field \in DOMAIN fm.d

\* id, title and tags are present and non-empty, id contains a dot and tags
\* is an array.
Tier1Sound(fm) ==
    /\ \A field \in {"id", "title", "tags"} : Present(fm, field) /\ Truthy(fm.d[field])
    /\ fm.d["id"].t = "str"
    /\ str_contains(fm.d["id"].s, <<".">>)
    /\ fm.d["tags"].t = "list"

\* The header has a type that is not one of the valid types.
InvalidType(fm) ==
    /\ Present(fm, "type")
    /\ \A i \in DOMAIN valid_types : ~PyEq(fm.d["type"], PyStr(<<valid_types[i]>>))

\* The verdict that the policy gives to three issue lists.
PolicyVerdict(tier1_issues, tier2_issues, tier3_issues) ==
    IF tier1_issues # <<>> THEN "NON-COMPLIANT"
    ELSE IF tier2_issues # <<>> \/ tier3_issues # <<>> THEN "COMPLIANT WITH WARNINGS"
    ELSE "COMPLIANT"

\* C1: for every document that parses and has its three issue lists,
\* validate_neurona gives the verdict of the policy: non-compliant, returning
\* False, iff the Tier 1 list is non-empty; compliant with warnings,
\* returning True, iff Tier 1 is empty and Tier 2 or Tier 3 has an issue;
\* fully compliant, returning True, otherwise.
C1_VerdictPolicy ==
    (/\ Validated
     /\ Parses(document)
     /\ report.tier1 # PyNone
     /\ report.tier2 # PyNone
     /\ report.tier3 # PyNone)
       => /\ report.outcome = "returned"
          /\ report.printed = PolicyVerdict(report.tier1, report.tier2, report.tier3)
          /\ report.returns = (report.tier1 = <<>>)

\* Every verdict that validate_neurona returns is the verdict of the policy.
C1_HoldsOnReturnedVerdicts ==
    (Validated /\ Parses(document) /\ report.outcome = "returned")
       => /\ report.printed = PolicyVerdict(report.tier1, report.tier2, report.tier3)
          /\ report.returns = (report.tier1 = <<>>)

\* C2: for every parsed header validate_tier1 returns an issue list, empty
\* iff id, title and tags are present and non-empty, id contains a dot and
\* tags is an array; a field of the three that is absent has an issue that
\* names it, and the verdict is then non-compliant.
C2_Tier1Issues ==
    (Validated /\ Parses(document)) =>
        LET fm == HeaderOf(document)
            t1 == validate_tier1([frontmatter |-> fm])
        IN /\ ~t1.raised
           /\ t1.value = <<>> <=> Tier1Sound(fm)
           /\ \A field \in {"id", "title", "tags"} :
                 ~Present(fm, field) =>
                    /\ \E i \in DOMAIN t1.value :
                          t1.value[i] = "Missing Tier 1 field: " \o field
                    /\ report.outcome = "returned"
                    /\ report.printed = "NON-COMPLIANT"

\* validate_tier1 agrees with the claim on the headers that are a mapping
\* whose id is a string.
C2_HoldsOnStringIds ==
    (/\ Validated
     /\ Parses(document)
     /\ HeaderOf(document).t = "dict"
     /\ Present(HeaderOf(document), "id") => HeaderOf(document).d["id"].t = "str")
       => LET fm == HeaderOf(document)
              t1 == validate_tier1([frontmatter |-> fm])
          IN /\ ~t1.raised
             /\ t1.value = <<>> <=> Tier1Sound(fm)
             /\ \A field \in {"id", "title", "tags"} :
                   ~Present(fm, field) =>
                      \E i \in DOMAIN t1.value :
                         t1.value[i] = "Missing Tier 1 field: " \o field

C4_NeverThrown ==
    (Validated /\ str_startswith(document, Delimiter)
        /\ Len(str_split(document, Delimiter, 2)) >= 3)
       => /\ report.outcome = "returned"
          /\ vpc # "crashed"

-----------------------------------------------------------------------------
(* Claims on the letter case of the vocabulary keys *)

\* The lookup named fn on a raw key.
LookupOf(fn, raw_key) ==
    CASE fn = "type" -> map_wi_type_to_neurona_type(raw_key)
      [] fn = "status" -> map_status_to_tags(raw_key)
      [] fn = "link" -> map_polarion_link_to_connection_type(raw_key)

\* The raw keys that differ from raw_key in letter case at most.
SameLetters(raw_key) ==
    {other \in RawKeys : other.t = "str" /\ str_lower(other.s) = str_lower(raw_key.s)}

\* C11: the type, status and link-role lookups are case-insensitive on the
\* key: two keys that differ only in letter case map to the same result.
C11_CaseInsensitive ==
    (lookup.fn # "none" /\ key.t = "str") =>
        \A other \in SameLetters(key) : LookupOf(lookup.fn, other) = lookup.out

\* The status and the link-role lookups lower-case the key first.
C11_HoldsOnStatusAndLink ==
    (lookup.fn \in {"status", "link"} /\ key.t = "str") =>
        \A other \in SameLetters(key) : LookupOf(lookup.fn, other) = lookup.out

C11_OtherCaseReached ==
    /\ lookup.fn = "status"
    /\ key = PyStr(<<"D","r","a","f","t">>)
    /\ lookup.out = Return(<<"draft", "wip">>)

-----------------------------------------------------------------------------
(* Claims on the type enumeration *)

\* The closed type enumeration of the data model.
DataModelTypes == {"requirement", "task", "issue", "test_case", "feature", "concept"}

\* validate_tier2 reports a type issue for the header.
TypeIssue(fm) ==
    \E i \in DOMAIN validate_tier2([frontmatter |-> fm]).value :
        validate_tier2([frontmatter |-> fm]).value[i] = "Invalid type"

\* The types that map_wi_type_to_neurona_type can return.
CanonicalTypes == {type_mapping[k] : k \in DOMAIN type_mapping} \cup {"concept"}

\* C12: Tier 2 reports a type issue iff the header has a type that is not in
\* the enumeration requirement, task, issue, test_case, feature, concept; and
\* every type that the type map can return is accepted without a warning.
C12_TypeEnumeration ==
    (Validated /\ Parses(document) /\ HeaderOf(document).t = "dict") =>
        /\ TypeIssue(HeaderOf(document)) <=>
              /\ Present(HeaderOf(document), "type")
              /\ \A ty \in DataModelTypes :
                    ~PyEq(HeaderOf(document).d["type"], PyStr(<<ty>>))
        /\ \A ty \in CanonicalTypes : ~TypeIssue(PyDict("type" :> PyStr(<<ty>>)))

\* Tier 2 reports a type issue iff the header has a type that is not in the
\* list valid_types of validate_tier2.
C12_HoldsOnValidTypes ==
    (Validated /\ Parses(document) /\ HeaderOf(document).t = "dict") =>
        (TypeIssue(HeaderOf(document)) <=> InvalidType(HeaderOf(document)))

C12_TaskReached ==
    /\ Validated
    /\ Parses(document)
    /\ Present(HeaderOf(document), "type")
    /\ PyEq(HeaderOf(document).d["type"], PyStr(<<"task">>))
    /\ report.outcome = "returned"
    /\ report.tier2 = <<"Invalid type">>

-----------------------------------------------------------------------------
(* Specification of the tags: convert_to_neurona on payloads whose type,
   status, title and description vary *)

\* Raw types: a key of the type map, words that also are a provenance, a
\* status or a keyword tag, and null.
TagTypes ==
    {PyStr(Spelling["testCase"]), PyStr(<<"p", "o", "l", "a", "r", "i", "o", "n">>), PyStr(<<"d", "r", "a", "f", "t">>),
     PyStr(<<"s", "e", "n", "s", "o", "r">>), PyNone}

TagStatuses ==
    {PyStr(Spelling["draft"]), PyStr(Spelling["in_progress"]), PyStr(Spelling["open"]),
     PyStr(<<"D", "r", "a", "f", "t">>), PyStr(<<"z", "z", "z">>)}

TagTitles == {<<"T", "e", "m", "p", "e", "r", "a", "t", "u", "r", "e", " ", "s", "e", "n", "s", "o", "r">>, <<"C", "o", "n", "f", "i", "g", " ", "e", "r", "r", "o", "r">>, <<"m", "i", "c", "r", "o">>, <<"x">>}

TagDescriptions == {<<>>, <<"<", "b", ">", "s", "e", "n", "<", "/", "b", ">", "s", "o", "r", " ", "f", "a", "u", "l", "t">>, <<"c", "o", "n", "f", "i", "g", "u", "r", "a", "t", "i", "o", "n">>}

\* A payload with the given type, status, title and description.
TagPayload(wi_type, status, title, description) ==
    PyDict("data" :> PyDict(
        "attributes" :> PyDict(
            Attr("id", PyStr(<<"W", "I", "-", "1">>)) @@
            Attr("type", wi_type) @@
            Attr("title", PyStr(title)) @@
            Attr("status", status) @@
            Attr("updated", PyStr(Now)) @@
            Attr("description", PyDict(Attr("value", PyStr(description)))))))

InitTags ==
    /\ \E wi_type \in TagTypes, status \in TagStatuses, title \in TagTitles,
          description \in TagDescriptions :
          source = [id |-> <<"W", "I", "-", "1">>,
                    data |-> TagPayload(wi_type, status, title, description),
                    wi_type |-> wi_type, status |-> status, title |-> title,
                    description |-> description]
    /\ converted = PyNone
    /\ loaded = PyNone
    /\ NormIdle
    /\ VocabIdle
    /\ BatchIdle
    /\ ParseIdle
    /\ ValidIdle
    /\ LinkIdle

NextTags == Convert

SpecTags == InitTags /\ [][NextTags]_vars

-----------------------------------------------------------------------------
(* Claims on the tags *)

\* The tags in the order the code collects them: the provenance tag, the raw
\* type, the tags of the status, the tags of the keyword rules.
CollectedTags(src) ==
    <<PyStr(<<"polarion">>), src.wi_type>>
    \o [i \in DOMAIN map_status_to_tags(src.status).value |->
           PyStr(<<map_status_to_tags(src.status).value[i]>>)]
    \o keyword_tags(str_lower(src.title \o <<" ">> \o clean_html(PyStr(src.description)).value),
                    KeywordRules)

\* The places of seq that hold a value for the first time.
FirstPlaces(seq) == {i \in DOMAIN seq : \A j \in 1..(i - 1) : ~PyEq(seq[j], seq[i])}

\* The i-th smallest member of a set of numbers.
Nth(places, i) == CHOOSE k \in places : Cardinality({j \in places : j < k}) = i - 1

\* The tags line of the written document.
TagsLine(tags) == <<"tags", ":", " ">> \o json_dumps(tags) \o NL

\* C13: tag dedup invariant. The tags that convert_to_neurona writes hold no
\* value twice, and they are the collected tags (provenance, raw type, status
\* tags, keyword tags) in the order of their first occurrence.
C13_TagDedup ==
    (converted # PyNone /\ ~converted.raised) =>
        LET tags == converted.value.record.tags
            all == CollectedTags(source)
        IN /\ \A i, j \in DOMAIN tags : PyEq(tags[i], tags[j]) => i = j
           /\ Len(tags) = Cardinality(FirstPlaces(all))
           /\ \A i \in DOMAIN tags : PyEq(tags[i], all[Nth(FirstPlaces(all), i)])
           /\ str_contains(converted.value.content, TagsLine(tags))

C13_Witness ==
    /\ converted # PyNone
    /\ ~converted.raised
    /\ source.wi_type = PyStr(<<"d", "r", "a", "f", "t">>)
    /\ source.status = PyStr(Spelling["draft"])
    /\ Len(converted.value.record.tags) < Len(CollectedTags(source))

\* The lower-cased text of the title, a blank and the cleaned description.
SearchText(src) ==
    str_lower(src.title \o <<" ">> \o clean_html(PyStr(src.description)).value)

\* The rule's keyword occurs in the text.
RuleMatches(rule, text) == \E w \in rule.words : str_contains(text, w)

\* The places of tags that hold the tag.
PlacesOf(tags, tag) == {i \in DOMAIN tags : PyEq(tags[i], PyStr(tag))}

\* The provenance tag, the raw type and the tags of the status.
LeadingTags(src) ==
    <<PyStr(<<"polarion">>), src.wi_type>>
    \o [i \in DOMAIN map_status_to_tags(src.status).value |->
           PyStr(<<map_status_to_tags(src.status).value[i]>>)]

\* Every place of tags that holds a leading tag is before place p.
AfterLeadingTags(tags, src, p) ==
    \A j \in DOMAIN tags :
        (\E k \in DOMAIN LeadingTags(src) : PyEq(tags[j], LeadingTags(src)[k])) => j < p

\* C14: the keyword rules are independent and all evaluated. Whenever the
\* lower-cased title and body text contains the keyword of a rule, the tags
\* hold that rule's tag exactly once, and the tag is placed after the
\* provenance tag, the raw type and the status tags.
C14_KeywordTagsLast ==
    (converted # PyNone /\ ~converted.raised) =>
        \A r \in DOMAIN KeywordRules :
            RuleMatches(KeywordRules[r], SearchText(source)) =>
                LET tags == converted.value.record.tags
                    places == PlacesOf(tags, KeywordRules[r].tag)
                IN /\ Cardinality(places) = 1
                   /\ \A p \in places : AfterLeadingTags(tags, source, p)

\* C14 (amended): whenever the text contains the keyword of a rule, the tags
\* hold that rule's tag exactly once; the tag is placed after the provenance
\* tag, the raw type and the status tags, unless the raw type is that very
\* word, and then it is the second tag, where the raw type stands.
C14_KeywordTags ==
    (converted # PyNone /\ ~converted.raised) =>
        \A r \in DOMAIN KeywordRules :
            RuleMatches(KeywordRules[r], SearchText(source)) =>
                LET tags == converted.value.record.tags
                    places == PlacesOf(tags, KeywordRules[r].tag)
                IN /\ Cardinality(places) = 1
                   /\ IF PyEq(source.wi_type, PyStr(KeywordRules[r].tag))
                      THEN places = {2}
                      ELSE \A p \in places : AfterLeadingTags(tags, source, p)

C14_Witness ==
    /\ converted # PyNone
    /\ ~converted.raised
    /\ source.wi_type = PyStr(Spelling["testCase"])
    /\ RuleMatches(KeywordRules[1], SearchText(source))
    /\ RuleMatches(KeywordRules[2], SearchText(source))
    /\ Cardinality(PlacesOf(converted.value.record.tags, KeywordRules[1].tag)) = 1
    /\ Cardinality(PlacesOf(converted.value.record.tags, KeywordRules[2].tag)) = 1

-----------------------------------------------------------------------------
(* Specification of the links: extract_relationships on payloads whose link
   collection varies *)

\* Target references: a path that ends in an identifier, bare identifiers,
\* a path with the identifier inside, a lower-case hyphen identifier, paths
\* and references without a recognized prefix, and an empty reference.
LinkIds ==
    {PyStr(<<"p", "/", "w", "i", ".", "9">>), PyStr(<<"W", "I", "-", "7">>), PyStr(<<"p", "/", "W", "I", ".", "3", "/", "x">>), PyStr(<<"p", "/", "w", "i", "-", "7">>), PyStr(<<"P", "/", "X", "-", "1">>),
     PyStr(<<"X", "-", "1">>), PyStr(<<>>), PyInt(5)}

\* Roles: a key of the link map, a key in capitals, an unknown word, null.
LinkRoles ==
    {PyStr(Spelling["depends_on"]), PyStr(<<"P", "A", "R", "E", "N", "T">>), PyStr(<<"b", "o", "g", "u", "s">>), PyNone}

\* Link descriptors: id and role, id alone, role alone, and values that are
\* no descriptor.
Descriptors ==
    {PyDict(Attr("id", i) @@ Attr("role", r)) : i \in LinkIds, r \in LinkRoles}
    \cup {PyDict(Attr("id", i)) : i \in LinkIds}
    \cup {PyDict(Attr("role", PyStr(Spelling["parent"]))), PyStr(<<"x">>)}

\* A payload whose relationships member is rels.
LinkPayload(rels) == PyDict("data" :> PyDict("relationships" :> rels))

\* Payloads with a list of descriptors, and payloads whose link collection is
\* missing or has another shape.
LinkPayloads ==
    {LinkPayload(PyDict("linkedWorkItems" :> PyDict("data" :> PyList(l)))) :
        l \in StringsUpTo(Descriptors, MaxLinks)}
    \cup {PyNone,
          PyDict("data" :> PyNone),
          PyDict("data" :> EmptyDict),
          LinkPayload(PyNone),
          LinkPayload(EmptyDict),
          LinkPayload(PyDict("linkedWorkItems" :> PyList(<<>>))),
          LinkPayload(PyDict("linkedWorkItems" :> EmptyDict)),
          LinkPayload(PyDict("linkedWorkItems" :> PyDict("data" :> PyNone))),
          LinkPayload(PyDict("linkedWorkItems" :> PyDict("data" :> PyInt(5)))),
          LinkPayload(PyDict("linkedWorkItems" :> PyDict("data" :> PyStr(<<"x">>)))),
          LinkPayload(PyDict("linkedWorkItems" :>
              PyDict("data" :> PyDict(Attr("id", PyStr(<<"W", "I", "-", "7">>))))))}

InitLinks ==
    /\ link_data \in LinkPayloads
    /\ edges = PyNone
    /\ NormIdle
    /\ VocabIdle
    /\ BatchIdle
    /\ ParseIdle
    /\ TripIdle
    /\ ValidIdle

\* extract_relationships is called on the payload and returns.
ExtractRelationships ==
    /\ edges = PyNone
    /\ edges' = PyList(extract_relationships(link_data))
    /\ UNCHANGED <<link_data, exceptLink>>

NextLinks == ExtractRelationships

SpecLinks == InitLinks /\ [][NextLinks]_vars

-----------------------------------------------------------------------------
(* Claims on the links *)

\* The payload has a link collection of the right shape: a list under
\* data.relationships.linkedWorkItems.data.
HasLinkList(p) ==
    /\ p.t = "dict" /\ "data" \in DOMAIN p.d
    /\ p.d["data"].t = "dict" /\ "relationships" \in DOMAIN p.d["data"].d
    /\ p.d["data"].d["relationships"].t = "dict"
    /\ "linkedWorkItems" \in DOMAIN p.d["data"].d["relationships"].d
    /\ p.d["data"].d["relationships"].d["linkedWorkItems"].t = "dict"
    /\ "data" \in DOMAIN p.d["data"].d["relationships"].d["linkedWorkItems"].d
    /\ p.d["data"].d["relationships"].d["linkedWorkItems"].d["data"].t = "list"

\* The link descriptors of a payload that has a link list.
LinkList(p) == p.d["data"].d["relationships"].d["linkedWorkItems"].d["data"].l

\* A descriptor is malformed: it is no mapping, its id is neither a string
\* nor null, or its role is no string.
MalformedDescriptor(d) ==
    \/ d.t # "dict"
    \/ "id" \in DOMAIN d.d /\ d.d["id"].t \notin {"str", "null"}
    \/ "role" \in DOMAIN d.d /\ d.d["role"].t # "str"

\* A descriptor from which an edge is emitted: a mapping with a non-empty
\* string id and a role that is a string or absent.
Emitting(d) ==
    /\ d.t = "dict"
    /\ "id" \in DOMAIN d.d /\ d.d["id"].t = "str" /\ d.d["id"].s # <<>>
    /\ "role" \in DOMAIN d.d => d.d["role"].t = "str"

\* C15: relationship failure isolation. extract_relationships returns for
\* every payload, and when the link collection is missing or malformed (wrong
\* shape, or a malformed descriptor or role in it) it returns the empty
\* relationship sequence.
C15_EmptyOnMalformed ==
    edges # PyNone =>
        /\ edges.t = "list"
        /\ (\/ ~HasLinkList(link_data)
            \/ \E i \in DOMAIN LinkList(link_data) :
                  MalformedDescriptor(LinkList(link_data)[i]))
              => edges.l = <<>>

\* When the link collection is missing or of a wrong shape, or its first
\* descriptor is malformed, the relationship sequence is empty.
C15_HoldsOnWrongShape ==
    (edges # PyNone
        /\ (\/ ~HasLinkList(link_data)
            \/ LinkList(link_data) # <<>> /\ LinkList(link_data)[1].t # "dict"))
       => edges = PyList(<<>>)

-----------------------------------------------------------------------------

\* The closed connection-type enumeration.
ConnectionTypes ==
    {"parent", "child", "relates_to", "blocks", "blocked_by", "validates",
     "validated_by", "implements", "implemented_by", "tests", "tested_by", "related"}

\* C16: every edge that extract_relationships emits has a connection type of
\* the closed enumeration and the weight 80; the edge of a descriptor whose
\* role is absent or in no vocabulary has the type relates_to.
C16_EdgeTypeAndWeight ==
    edges # PyNone =>
        /\ \A i \in DOMAIN edges.l :
              /\ edges.l[i].connection_type \in ConnectionTypes
              /\ edges.l[i].weight = 80
        /\ (HasLinkList(link_data)
              /\ \A i \in DOMAIN LinkList(link_data) : Emitting(LinkList(link_data)[i]))
              => /\ Len(edges.l) = Len(LinkList(link_data))
                 /\ \A i \in DOMAIN edges.l :
                       (\/ "role" \notin DOMAIN LinkList(link_data)[i].d
                        \/ ~InVocabulary(LinkList(link_data)[i].d["role"], link_mapping))
                          => edges.l[i].connection_type = "relates_to"

C16_Witness ==
    /\ edges # PyNone
    /\ HasLinkList(link_data)
    /\ Len(LinkList(link_data)) = 2
    /\ Emitting(LinkList(link_data)[1])
    /\ Emitting(LinkList(link_data)[2])
    /\ "role" \in DOMAIN LinkList(link_data)[1].d
    /\ LinkList(link_data)[1].d["role"] = PyStr(<<"b", "o", "g", "u", "s">>)
    /\ "role" \notin DOMAIN LinkList(link_data)[2].d
    /\ Len(edges.l) = 2
    /\ edges.l[1].connection_type = "relates_to"
    /\ edges.l[2].connection_type = "relates_to"
    /\ edges.l[1].weight = 80

-----------------------------------------------------------------------------

\* The segment starts, letter case apart, with WI-, wi. or WI. .
HasIdPrefix(segment) ==
    \/ str_startswith(str_lower(segment), <<"w", "i", "-">>)
    \/ str_startswith(str_lower(segment), <<"w", "i", ".">>)

\* The last segment of segments that has an identifier prefix, if any.
LastWithPrefix(segments) ==
    LET hits == {i \in DOMAIN segments : HasIdPrefix(segments[i])}
    IN segments[CHOOSE i \in hits : \A j \in hits : j <= i]

\* The target that the rules of the extractor give to a reference.
ExpectedTarget(reference) ==
    IF str_contains(reference, <<"/">>)
          /\ \E i \in DOMAIN str_split(reference, <<"/">>, -1) :
                HasIdPrefix(str_split(reference, <<"/">>, -1)[i])
    THEN sanitize_id(LastWithPrefix(str_split(reference, <<"/">>, -1)))
    ELSE sanitize_id(reference)

\* Every descriptor of the payload emits an edge.
AllEmitting(p) ==
    /\ HasLinkList(p)
    /\ \A i \in DOMAIN LinkList(p) : Emitting(LinkList(p)[i])

\* C18: for every link descriptor with a target reference the target_id is
\* the normalization of the last slash-delimited segment that starts, letter
\* case apart, with WI-, wi. or WI.; of the whole reference if no segment
\* does or if there is no slash. Every emitted target_id is normalized.
C18_TargetIds ==
    (edges # PyNone /\ AllEmitting(link_data)) =>
        /\ Len(edges.l) = Len(LinkList(link_data))
        /\ \A i \in DOMAIN edges.l :
              /\ edges.l[i].target_id = ExpectedTarget(LinkList(link_data)[i].d["id"].s)
              /\ sanitize_id(edges.l[i].target_id) = edges.l[i].target_id

\* The reference has no slash, or one of its segments starts with wi., WI-
\* or WI. as written.
WrittenPrefix(reference) ==
    \/ ~str_contains(reference, <<"/">>)
    \/ \E i \in DOMAIN str_split(reference, <<"/">>, -1) :
          \E pre \in IdPrefixes : str_startswith(str_split(reference, <<"/">>, -1)[i], pre)

\* The target ids agree with the claim for the references without a slash
\* and for those with a segment that has a prefix as written.
C18_HoldsOnWrittenPrefixes ==
    (/\ edges # PyNone
     /\ AllEmitting(link_data)
     /\ \A i \in DOMAIN LinkList(link_data) :
           /\ WrittenPrefix(LinkList(link_data)[i].d["id"].s)
           /\ \A k \in DOMAIN str_split(LinkList(link_data)[i].d["id"].s, <<"/">>, -1) :
                 HasIdPrefix(str_split(LinkList(link_data)[i].d["id"].s, <<"/">>, -1)[k])
                    => \E pre \in IdPrefixes :
                          str_startswith(str_split(LinkList(link_data)[i].d["id"].s, <<"/">>, -1)[k], pre))
       => /\ Len(edges.l) = Len(LinkList(link_data))
          /\ \A i \in DOMAIN edges.l :
                /\ edges.l[i].target_id = ExpectedTarget(LinkList(link_data)[i].d["id"].s)
                /\ sanitize_id(edges.l[i].target_id) = edges.l[i].target_id

-----------------------------------------------------------------------------
(* Claims on the exit code of the validator *)

\* C17: main returns a non-zero exit code only if at least one validated
\* document is non-compliant (a Tier 1 failure or a parse error); a run in
\* which every document is compliant or compliant with warnings returns 0.
C17_NonZeroOnlyIfNonCompliant ==
    vpc = "done" =>
        /\ vexit # PyInt(0) => \E i \in DOMAIN verdicts : ~verdicts[i]
        /\ (\A i \in DOMAIN verdicts : verdicts[i]) => vexit = PyInt(0)

\* C17 (amended): main returns 1 if the neuronas directory is missing or
\* holds no file; otherwise, having validated every file, it returns 1 iff
\* at least one document is non-compliant and 0 when every document is
\* compliant or compliant with warnings. When validate_neurona raises, main
\* does not return and the script exits with 1.
C17_ExitCode ==
    /\ vpc = "done" =>
          /\ unread = 0 \/ ~dir_exists
          /\ vexit = IF ~dir_exists \/ verdicts = <<>> \/ \E i \in DOMAIN verdicts : ~verdicts[i]
                     THEN PyInt(1)
                     ELSE PyInt(0)
    /\ vpc = "crashed" => vexit = PyInt(1) /\ report.outcome = "raised"
    /\ (Validated /\ vpc # "crashed") =>
          verdicts[Len(verdicts)] = (report.printed \in {"COMPLIANT", "COMPLIANT WITH WARNINGS"})

C17_Witness ==
    /\ vpc = "done"
    /\ Len(verdicts) = 2
    /\ report.printed = "COMPLIANT WITH WARNINGS"
    /\ verdicts = <<TRUE, TRUE>>
    /\ vexit = PyInt(0)

\* ---------------------------------------------------------------------
\* C19: in a run of main, after the input list is de-duplicated, no two
\* distinct identifiers that both succeed write the same output file, so
\* no document written earlier in the run is overwritten by a later one.
\* The file is named after sanitize_id of the "id" attribute of the
\* payload (lines 286-290, 425), not after the input identifier.
InMainRun == pc \in {"main_loop", "main_return"}

C19_OneFilePerIdentifier ==
    InMainRun =>
        \A i, j \in DOMAIN results.success :
            results.success[i].id # results.success[j].id =>
                results.success[i].file # results.success[j].file

\* What the code does keep: one file per neurona id, holding what the last
\* identifier that sanitizes to this id wrote.
C19_OneFilePerNeuronaId ==
    InMainRun =>
        /\ \A i, j \in DOMAIN results.success :
              (results.success[i].file = results.success[j].file)
                  <=> (Join(results.success[i].neurona_id) = Join(results.success[j].neurona_id))
        /\ \A i \in DOMAIN results.success :
              /\ results.success[i].file \in DOMAIN neuronas
              /\ \E j \in i..Len(results.success) :
                    /\ results.success[j].file = results.success[i].file
                    /\ neuronas[results.success[i].file].id = results.success[j].id

C19_Overwritten ==
    /\ pc = "main_return"
    /\ Len(results.success) = 2
    /\ results.success[1].file = results.success[2].file
    /\ results.success[1].id # results.success[2].id

====
